---- MODULE Spec2Model ----
(***************************************************************************)
(* Sitemap monitoring backend: the monitoring cycle of one site            *)
(* (app/scrapers/sitemap/crawler.py), the recursive sitemap walk           *)
(* (app/scrapers/sitemap/parser.py) and the retried HTTP request           *)
(* (app/utils/http.py).                                                    *)
(***************************************************************************)
EXTENDS Integers, Sequences, FiniteSets, TLC

(* ------------------------------ bounds --------------------------------- *)
MaxCycles == 2
MaxEntries == 3
MaxClock == 1

\* the site whose cycles are followed, and a second site sharing the pages table
Sites == {1, 2}
MonitoredSites == {1}
\* the page URLs, in the order a sitemap lists them
UrlOrder == <<"a", "b", "c">>
PageUrls == {UrlOrder[i] : i \in DOMAIN UrlOrder}
Rank(u) == CHOOSE i \in DOMAIN UrlOrder : UrlOrder[i] = u
NoContent == <<"-">>

SeqsUpTo(S, n) == UNION {[1..k -> S] : k \in 0..n}

\* the lists of page URLs a walk can return: any URLs, repeated or not, taken up to
\* reordering (no step of the cycle reads the position of an entry)
SitemapLists ==
  {E \in SeqsUpTo(PageUrls, MaxEntries) :
      \A i, j \in DOMAIN E : i <= j => Rank(E[i]) <= Rank(E[j])}

Range(f) == {f[x] : x \in DOMAIN f}
EmptyMap == [x \in {} |-> 0]

VARIABLES
  clock,            \* utc_now()
  db_pages,         \* committed rows of insight_discovered_pages, in insertion order
  db_last_crawled,  \* MonitoredSite.last_crawled_at per site (-1: never)
  crawl_logs,       \* committed rows of insight_crawl_logs
  pc,               \* position of process_site
  site,             \* site.id of the running cycle
  start_time,       \* self.start_time
  existing_urls,    \* url -> last_seen_at, loaded once per cycle
  sitemap_entries,  \* result of extract_urls_from_sitemap
  idx,              \* loop index of the diff loop (1-based)
  new_pages,        \* new_pages: pending DiscoveredPage objects
  session_dirty,    \* rows of the session whose last_seen_at was reassigned: row index -> time
  new_ix,           \* entries that took the "new" branch, in order
  reseen_ix,        \* entries that took the "already exists" branch, in order
  ncycles,          \* cycles started so far
  result,           \* what the last process_site call returned
  db_at_start,      \* the committed pages when the running cycle started
  fixed_content,    \* the sitemap's content when it does not change between cycles
  prev_success,     \* whether the cycle before the running one returned success
  counted_new,      \* per (site, url): successful cycles that reported it as new
  notified          \* the notifications the running (or last) cycle asked its notifier for

VARIABLES
  web,                 \* the site's sitemap documents: what fetching each sitemap URL gives
  walk_pc,             \* position of fetch_and_parse_sitemap
  processed_sitemaps,  \* processed_sitemaps
  all_urls,            \* all_urls
  stack,               \* the active calls of process_sitemap that iterate over children
  fetch_count,         \* per sitemap URL: calls of fetch_sitemap in this walk
  request_count        \* per sitemap URL: calls of make_request in this walk

walk_vars == <<web, walk_pc, processed_sitemaps, all_urls, stack, fetch_count,
               request_count>>

cycle_vars == <<clock, db_pages, db_last_crawled, crawl_logs, pc, site, start_time,
                existing_urls, sitemap_entries, idx, new_pages, session_dirty,
                new_ix, reseen_ix, ncycles, result, db_at_start, fixed_content,
                prev_success, counted_new, notified>>

VARIABLES
  http_pc,         \* position of the retrying wrapper around make_request
  method,          \* the method argument of make_request
  attempt_number,  \* the wrapper's attempt_number
  attempts,        \* what each call of the wrapped function met, in order
  http_result      \* what the caller of make_request gets

http_vars == <<http_pc, method, attempt_number, attempts, http_result>>

VARIABLES
  entry_point,          \* the function a cycle is asked from
  site_config,          \* the row of the site in insight_monitored_sites
  enable_notification,  \* run_crawler's enable_notification (not --no-notify)
  exit_code,            \* the exit status of the process (-1: has not exited)
  closing_commit        \* the commit that closes run_crawler's session

entry_vars == <<entry_point, site_config, enable_notification, exit_code, closing_commit>>

VARIABLES
  send_pc,              \* position of the retrying wrapper around send_message
  webhook_url,          \* self.webhook_url of the notifier
  secret,               \* self.secret of the notifier
  msg_content,          \* the content argument of send_message
  send_attempt_number,  \* the wrapper's attempt_number
  posts,                \* what each requests.post of the notifier met, in order
  send_result,          \* what the caller of send_message gets
  nsends                \* calls of send_message so far

send_vars == <<send_pc, webhook_url, secret, msg_content, send_attempt_number, posts,
               send_result, nsends>>

VARIABLES
  drv_pc,         \* position of run_all_active_sites.main
  sites_to_run,   \* sites_to_run, with what the query of each site will find
  drv_idx,        \* idx of the loop over sites_to_run
  success_count,  \* success_count
  drv_started,    \* ids of the sites whose iteration has begun, in order
  drv_outcomes,   \* how the iteration of each site ended, in order
  drv_session     \* id of the site whose session is open (0: none)

drv_vars == <<drv_pc, sites_to_run, drv_idx, success_count, drv_started, drv_outcomes,
              drv_session>>

VARIABLES
  note_pc,          \* position of send_new_pages_notification
  note_configured,  \* whether the notifier has its webhook URL and its secret
  note_pages,       \* new_pages, in discovery order
  note_text,        \* text_content
  note_sent,        \* the texts POSTed to the webhook
  note_result       \* what the call returned

note_vars == <<note_pc, note_configured, note_pages, note_text, note_sent, note_result>>

VARIABLES
  r_pc,        \* position of each of two concurrent calls of process_site for one site
  r_existing,  \* existing_urls of each call
  r_entries,   \* sitemap_entries of each call
  r_new,       \* new_pages of each call
  r_dirty,     \* the rows each call's session holds with a reassigned last_seen_at
  r_commit,    \* how the page commit of each call went
  r_before,    \* how many page commits had been attempted when each call loaded its map
  r_logs,      \* the statuses of the records each call wrote
  r_result     \* what each call returned

race_vars == <<r_pc, r_existing, r_entries, r_new, r_dirty, r_commit, r_before, r_logs,
               r_result>>

more_vars == <<note_vars, race_vars>>

\* the state of the drivers around the cycle
ext_vars == <<send_vars, drv_vars, more_vars>>

vars == <<cycle_vars, walk_vars, http_vars, entry_vars, ext_vars>>

not_cycle_vars == <<walk_vars, http_vars, entry_vars, ext_vars>>
not_walk_vars == <<cycle_vars, http_vars, entry_vars, ext_vars>>
not_http_vars == <<cycle_vars, walk_vars, entry_vars, ext_vars>>
not_send_vars == <<cycle_vars, walk_vars, http_vars, entry_vars, drv_vars, more_vars>>

(* ------------------------- persistence layer --------------------------- *)

\* indices of the rows of a site
RowsOfSite(pages, site_id) == {i \in DOMAIN pages : pages[i].monitored_site_id = site_id}

\* indices of the rows with this (site, url)
RowsOf(pages, site_id, url) == {i \in RowsOfSite(pages, site_id) : pages[i].url = url}

\* UniqueConstraint("monitored_site_id", "url")
UniqueSiteUrl(pages) ==
  \A i, j \in DOMAIN pages :
     (pages[i].monitored_site_id = pages[j].monitored_site_id /\ pages[i].url = pages[j].url)
        => i = j

NoConstraint(pages) == TRUE

\* the database accepts a flush iff the table still satisfies its constraints
ConstraintsHold(pages) == UniqueSiteUrl(pages)

\* a flush that also stamps every row of the table with the current time
FlushedTouchingAll(pages, dirty, pending) ==
  [i \in DOMAIN pages |-> [pages[i] EXCEPT !.last_seen_at = clock]] \o pending

\* a flush that writes a reseen row as if the page had just been discovered
FlushedAsRediscovery(pages, dirty, pending) ==
  [i \in DOMAIN pages |->
      IF i \in DOMAIN dirty
      THEN [pages[i] EXCEPT !.last_seen_at = dirty[i], !.first_discovered_at = dirty[i]]
      ELSE pages[i]]
  \o pending

\* a flush that writes the sitemap's lastmod, here the epoch, as last_seen_at
FlushedWithLastmod(pages, dirty, pending) ==
  [i \in DOMAIN pages |->
      IF i \in DOMAIN dirty THEN [pages[i] EXCEPT !.last_seen_at = 0] ELSE pages[i]]
  \o pending

\* a flush that writes the reassigned rows only when there is a page to insert
FlushedIfNewPages(pages, dirty, pending) ==
  IF pending = <<>> THEN pages
  ELSE [i \in DOMAIN pages |->
          IF i \in DOMAIN dirty THEN [pages[i] EXCEPT !.last_seen_at = dirty[i]]
          ELSE pages[i]] \o pending

\* the flush of a session: UPDATE the dirty rows, INSERT the pending ones
Flushed(pages, dirty, pending) ==
  [i \in DOMAIN pages |->
      IF i \in DOMAIN dirty THEN [pages[i] EXCEPT !.last_seen_at = dirty[i]] ELSE pages[i]]
  \o pending

\* get_existing_urls: every page of the site, url -> last_seen_at
\* (a dict: for a url held by several rows the last row wins)
get_existing_urls_all_sites(pages, site_id) ==
  [u \in {pages[i].url : i \in DOMAIN pages} |->
      pages[CHOOSE i \in DOMAIN pages : pages[i].url = u].last_seen_at]

get_existing_urls(pages, site_id) ==
  [u \in {pages[i].url : i \in RowsOfSite(pages, site_id)} |->
      LET rows == RowsOf(pages, site_id, u)
          last == CHOOSE i \in rows : \A j \in rows : j <= i
      IN pages[last].last_seen_at]

(* --------------------------- the diff ---------------------------------- *)

\* "if url in existing_urls", with the new pages of this cycle also counted as known
IsExistingOrPending(url, existing, pending) ==
  url \in DOMAIN existing \/ \E k \in DOMAIN pending : pending[k].url = url

\* "if url in existing_urls"
IsExisting(url, existing, pending) == url \in DOMAIN existing

\* DiscoveredPage(monitored_site_id, url, page_title=None, first_discovered_at=utc_now(),
\*                last_seen_at=utc_now(), is_processed=0)
DiscoveredPage(site_id, url, t1, t2) ==
  [monitored_site_id |-> site_id, url |-> url, page_title |-> "None",
   first_discovered_at |-> t1, last_seen_at |-> t2, is_processed |-> 0]

(* ------------------------ the sitemap walk ------------------------------ *)

MaxChildren == 2
MaxLeafEntries == 2

SitemapUrls == {"s1", "s2", "s3"}
RootSitemap == "s1"

\* the entries of a leaf sitemap, in document order
LeafLists ==
  {E \in SeqsUpTo(PageUrls, MaxLeafEntries) :
      \A i, j \in DOMAIN E : i <= j => Rank(E[i]) <= Rank(E[j])}

\* what a sitemap URL of the site answers with:
\*   "failed"        make_request raises (after its retries), or the body is empty
\*   "corrupt_gzip"  a body marked as gzip (Content-Type or ".gz") that does not decompress
\*   "index"         a sitemap index: <sitemapindex> with the children's <loc>
\*   "leaf"          a regular sitemap: <urlset> with the entries' <loc>
\*   "malformed"     a body that is not well-formed XML
Document(kind, children, entries) ==
  [kind |-> kind, children |-> children, entries |-> entries]

Documents ==
  {Document("failed", <<>>, <<>>), Document("malformed", <<>>, <<>>),
   Document("corrupt_gzip", <<>>, <<>>)}
  \cup {Document("index", c, <<>>) : c \in SeqsUpTo(SitemapUrls, MaxChildren)}
  \cup {Document("leaf", <<>>, e) : e \in LeafLists}

\* no walk is in progress
NoWalk ==
  /\ web = <<>>
  /\ walk_pc = "off"
  /\ processed_sitemaps = {}
  /\ all_urls = <<>>
  /\ stack = <<>>
  /\ fetch_count = <<>>
  /\ request_count = <<>>

\* fetch_and_parse_sitemap is entered: processed_sitemaps = set(), all_urls = []
InitWalk ==
  /\ web \in [SitemapUrls -> Documents]
  /\ walk_pc = "start"
  /\ processed_sitemaps = {}
  /\ all_urls = <<>>
  /\ stack = <<>>
  /\ fetch_count = [u \in SitemapUrls |-> 0]
  /\ request_count = [u \in SitemapUrls |-> 0]

\* "if url in processed_sitemaps: return", with the test left out
NeverProcessed(url, processed) == FALSE

\* "if url in processed_sitemaps: return"
AlreadyProcessed(url, processed) == url \in processed

\* the URL is added only once its fetch has given content
AddedWhenFetched(processed, url) ==
  IF web[url].kind = "failed" THEN processed ELSE processed \cup {url}

\* processed_sitemaps.add(url), before the fetch
Added(processed, url) == processed \cup {url}

\* "if not content: return" taken as the end of the whole walk
WalkAborted(frames) == <<>>

\* "if not content: return": only this call ends, its callers go on
AfterFailedFetch(frames) == frames

\* all_urls = urls
Replaced(all, urls) == urls

\* all_urls.extend(urls)
Extended(all, urls) == all \o urls

\* fetch_sitemap returned None
None == Document("none", <<>>, <<>>)

\* a fetch_sitemap that asks for the URL once more when the body does not decompress
fetch_sitemap_again_on_gzip_failure(doc) ==
  CASE doc.kind = "failed" -> [content |-> None, requests |-> 1]
    [] doc.kind = "corrupt_gzip" -> [content |-> None, requests |-> 2]
    [] OTHER -> [content |-> doc, requests |-> 1]

\* fetch_sitemap(url): one call of make_request; None when it raises, None when
\* gzip.decompress raises, else the content ("if not content" treats b"" as None)
fetch_sitemap(doc) ==
  CASE doc.kind = "failed" -> [content |-> None, requests |-> 1]
    [] doc.kind = "corrupt_gzip" -> [content |-> None, requests |-> 1]
    [] OTHER -> [content |-> doc, requests |-> 1]

\* is_sitemap_index without its try/except: etree.fromstring raises on malformed XML
is_sitemap_index_unguarded(content) ==
  [raised |-> content.kind = "malformed", value |-> content.kind = "index"]

\* is_sitemap_index(content): the root tag ends with "sitemapindex"; False when the
\* content does not parse
is_sitemap_index(content) == [raised |-> FALSE, value |-> content.kind = "index"]

\* parse_sitemap_index(content, base_url): the <loc> of every <sitemap>; [] when the
\* content does not parse
parse_sitemap_index(content) ==
  [raised |-> FALSE,
   value |-> IF content.kind = "index" THEN content.children ELSE <<>>]

\* parse_sitemap(content): the <loc> of every <url>; [] when the content does not parse
parse_sitemap(content) ==
  [raised |-> FALSE,
   value |-> IF content.kind = "leaf" THEN content.entries ELSE <<>>]

\* an exception leaves process_sitemap and, there being no handler, the walk
WalkRaises ==
  /\ walk_pc' = "raised"
  /\ stack' = <<>>
  /\ UNCHANGED all_urls

\* the body of process_sitemap(url) up to its first recursive call: the effect on
\* (walk_pc, processed_sitemaps, fetch_count, request_count, all_urls, stack)
Call(url, frames) ==
  IF AlreadyProcessed(url, processed_sitemaps)
  THEN /\ stack' = frames
       /\ walk_pc' = "running"
       /\ UNCHANGED <<processed_sitemaps, fetch_count, request_count, all_urls>>
  ELSE LET fetched == fetch_sitemap(web[url])
           content == fetched.content
       IN /\ processed_sitemaps' = Added(processed_sitemaps, url)
          /\ fetch_count' = [fetch_count EXCEPT ![url] = @ + 1]
          /\ request_count' = [request_count EXCEPT ![url] = @ + fetched.requests]
          /\ CASE content = None ->
                    /\ stack' = AfterFailedFetch(frames)
                    /\ walk_pc' = "running"
                    /\ UNCHANGED all_urls
               [] content # None /\ is_sitemap_index(content).raised -> WalkRaises
               [] content # None /\ ~is_sitemap_index(content).raised
                    /\ is_sitemap_index(content).value ->
                    IF parse_sitemap_index(content).raised THEN WalkRaises
                    ELSE /\ stack' = Append(frames,
                                [url |-> url,
                                 child_sitemaps |-> parse_sitemap_index(content).value])
                         /\ walk_pc' = "running"
                         /\ UNCHANGED all_urls
               [] OTHER ->
                    IF parse_sitemap(content).raised THEN WalkRaises
                    ELSE /\ stack' = frames
                         /\ walk_pc' = "running"
                         /\ all_urls' = Extended(all_urls, parse_sitemap(content).value)

\* process_sitemap(sitemap_url)
WalkCallRoot ==
  /\ UNCHANGED not_walk_vars
  /\ walk_pc = "start"
  /\ Call(RootSitemap, stack)
  /\ UNCHANGED web

\* the next iteration of "for i, child_url in enumerate(child_sitemaps)" of the
\* innermost call: process_sitemap(child_url, level + 1)
WalkNextChild ==
  /\ UNCHANGED not_walk_vars
  /\ walk_pc = "running"
  /\ stack # <<>>
  /\ LET top == stack[Len(stack)] IN
       /\ top.child_sitemaps # <<>>
       /\ Call(Head(top.child_sitemaps),
               [stack EXCEPT ![Len(stack)].child_sitemaps = Tail(@)])
  /\ UNCHANGED web

\* the innermost call has iterated over all its children and returns
WalkReturn ==
  /\ UNCHANGED not_walk_vars
  /\ walk_pc = "running"
  /\ stack # <<>>
  /\ stack[Len(stack)].child_sitemaps = <<>>
  /\ stack' = SubSeq(stack, 1, Len(stack) - 1)
  /\ UNCHANGED <<web, walk_pc, processed_sitemaps, all_urls, fetch_count,
                 request_count>>

\* "return all_urls, processed_sitemaps"
WalkDone ==
  /\ UNCHANGED not_walk_vars
  /\ walk_pc = "running"
  /\ stack = <<>>
  /\ walk_pc' = "done"
  /\ UNCHANGED <<web, processed_sitemaps, all_urls, stack, fetch_count, request_count>>

NextWalk ==
  \/ WalkCallRoot
  \/ WalkNextChild
  \/ WalkReturn
  \/ WalkDone

(* ------------------------ the retried request --------------------------- *)

\* stop=stop_after_attempt(3)
StopAfterAttempt == 3

Methods == {"GET", "HEAD", "POST"}

\* what one call of the wrapped make_request meets:
\*   "ok"                a response with status < 400
\*   "http_4xx/5xx"      a response with that status: raise_for_status raises HTTPError
\*   "connection_error"  requests raises its ConnectionError
\*   "timeout"           requests raises Timeout
\*   "other_error"       an exception that is no RequestException, ConnectionError or
\*                       TimeoutError (random.choice on an empty user agent list, ...)
AttemptOutcomes ==
  {"ok", "http_4xx", "http_5xx", "connection_error", "timeout", "other_error"}

\* the failures the spec calls transient
Transient == {"http_5xx", "connection_error", "timeout"}

\* the exception one call of make_request raises (lines 136-162)
ExceptionOf(outcome) ==
  CASE outcome = "ok" -> "none"
    [] outcome \in {"http_4xx", "http_5xx"} -> "HTTPError"
    [] outcome = "connection_error" -> "ConnectionError"
    [] outcome = "timeout" -> "Timeout"
    [] OTHER -> "Exception"

\* HTTPError, ConnectionError and Timeout of requests are RequestException subclasses
RequestExceptions == {"HTTPError", "ConnectionError", "Timeout"}

\* retry=retry_if_exception_type((RequestException, ConnectionError, TimeoutError)):
\* decided by the exception's type alone, neither by the status nor by the method
ShouldRetry(exception, m) == exception \in RequestExceptions

\* a stop condition that lets the attempt after the ceiling through
StopsAfterCeiling(n) == n > StopAfterAttempt

\* stop_after_attempt(3): stop once attempt_number >= 3
ShouldStop(n) == n >= StopAfterAttempt

NoRequest ==
  /\ http_pc = "off"
  /\ method = "GET"
  /\ attempt_number = 0
  /\ attempts = <<>>
  /\ http_result = "none"

\* make_request(url, method) is called
InitRequest ==
  /\ http_pc = "attempt"
  /\ method \in Methods
  /\ attempt_number = 1
  /\ attempts = <<>>
  /\ http_result = "none"

\* one call of the wrapped function and the wrapper's decision on its outcome
Attempt ==
  /\ UNCHANGED not_http_vars
  /\ http_pc = "attempt"
  /\ \E o \in AttemptOutcomes :
       /\ attempts' = Append(attempts, o)
       /\ CASE ExceptionOf(o) = "none" ->
                 /\ http_pc' = "returned"
                 /\ http_result' = "response"
            [] ExceptionOf(o) # "none" /\ ~ShouldRetry(ExceptionOf(o), method) ->
                 /\ http_pc' = "raised"
                 /\ http_result' = ExceptionOf(o)
            [] ExceptionOf(o) # "none" /\ ShouldRetry(ExceptionOf(o), method)
                 /\ ShouldStop(attempt_number) ->
                 /\ http_pc' = "raised"
                 /\ http_result' = "RetryError"
            [] OTHER ->
                 /\ http_pc' = "backoff"
                 /\ UNCHANGED http_result
  /\ UNCHANGED <<method, attempt_number>>

\* the wrapper sleeps wait_exponential(...) and calls again
Backoff ==
  /\ UNCHANGED not_http_vars
  /\ http_pc = "backoff"
  /\ attempt_number' = attempt_number + 1
  /\ http_pc' = "attempt"
  /\ UNCHANGED <<method, attempts, http_result>>

NextRequest ==
  \/ Attempt
  \/ Backoff

(* ----------------------- FeishuNotifier.send_message -------------------- *)

MaxMessages == 2

\* @retry(stop=stop_after_attempt(3), ...) of send_message
SendStopAfterAttempt == 3

\* what one requests.post to the webhook can meet
PostOutcomes == {"ok", "transport_error", "non_200", "nonzero_code", "invalid_json"}

\* the content of a message: a dict that json.dumps accepts, or one it rejects
Contents == {"text", "unserializable"}

NoSend ==
  /\ send_pc = "off"
  /\ webhook_url = ""
  /\ secret = ""
  /\ msg_content = "none"
  /\ send_attempt_number = 0
  /\ posts = <<>>
  /\ send_result = "none"
  /\ nsends = 0

\* a notifier with or without its webhook URL and its signing secret
InitSend ==
  /\ send_pc = "idle"
  /\ webhook_url \in {"", "url"}
  /\ secret \in {"", "key"}
  /\ msg_content = "none"
  /\ send_attempt_number = 0
  /\ posts = <<>>
  /\ send_result = "none"
  /\ nsends = 0

\* send_message(msg_type, content) is called: the wrapper starts its first attempt
SendMessage ==
  /\ UNCHANGED not_send_vars
  /\ send_pc = "idle"
  /\ nsends < MaxMessages
  /\ nsends' = nsends + 1
  /\ \E c \in Contents : msg_content' = c
  /\ send_attempt_number' = 1
  /\ send_result' = "none"
  /\ send_pc' = "body"
  /\ UNCHANGED <<webhook_url, secret, posts>>

\* one call of the wrapped function and the wrapper's decision on its outcome. The
\* function returns False without a webhook URL or a secret; json.dumps(payload) of the
\* debug line raises outside the try block; the POST is inside it, and every outcome of
\* the POST, an exception of the POST or of response.json() included, ends in a return:
\* True for status 200 with code 0, else False. The wrapper
\* retries only when an exception leaves the function.
SendBody ==
  /\ UNCHANGED not_send_vars
  /\ send_pc = "body"
  /\ IF webhook_url = "" \/ secret = ""
     THEN /\ send_result' = "False"
          /\ send_pc' = "idle"
          /\ UNCHANGED posts
     ELSE IF msg_content = "unserializable"
     THEN /\ UNCHANGED posts
          /\ IF send_attempt_number >= SendStopAfterAttempt
             THEN /\ send_result' = "RetryError"
                  /\ send_pc' = "idle"
             ELSE /\ send_result' = "none"
                  /\ send_pc' = "wait"
     ELSE \E o \in PostOutcomes :
            /\ posts' = Append(posts, o)
            /\ send_result' = IF o = "ok" THEN "True" ELSE "False"
            /\ send_pc' = "idle"
  /\ UNCHANGED <<webhook_url, secret, msg_content, send_attempt_number, nsends>>

\* wait_exponential, then the next attempt
SendBackoff ==
  /\ UNCHANGED not_send_vars
  /\ send_pc = "wait"
  /\ send_attempt_number' = send_attempt_number + 1
  /\ send_pc' = "body"
  /\ UNCHANGED <<webhook_url, secret, msg_content, posts, send_result, nsends>>

NextSend ==
  \/ SendMessage
  \/ SendBody
  \/ SendBackoff

(* ------------- FeishuNotifier.send_new_pages_notification --------------- *)

MaxNewPages == 11

\* "new_pages[:10]", "len(new_pages) > 10", "len(new_pages) - 10"
InlineLimit == 10

\* a DiscoveredPage as the notification reads it (page_title "": no title)
NewPage(url, page_title) == [url |-> url, page_title |-> page_title]

\* n new pages in one of two discovery orders, none, all or every second with a title
NewPageLists ==
  {[i \in 1..n |->
      NewPage(IF up THEN i ELSE n + 1 - i,
              IF titled = "all" \/ (titled = "odd" /\ i % 2 = 1) THEN "t" ELSE "")] :
     n \in 0..MaxNewPages, up \in BOOLEAN, titled \in {"none", "odd", "all"}}

NoText == [total |-> -1, lines |-> <<>>, remainder |-> -1]

\* a list of every new page
ListedAll(pages) == pages

\* "new_pages[:10]"
Listed(pages) ==
  SubSeq(pages, 1, IF Len(pages) < InlineLimit THEN Len(pages) ELSE InlineLimit)

\* text_content: the count "len(new_pages)", one numbered line "{i}. {page.url}{title}"
\* for each listed page, and the line "...还有 {len(new_pages) - 10} 个页面未显示" when
\* there are more than 10 (remainder -1: no such line)
NewPagesText(pages) ==
  [total |-> Len(pages),
   lines |-> [i \in DOMAIN Listed(pages) |->
                [number |-> i, url |-> Listed(pages)[i].url,
                 title |-> Listed(pages)[i].page_title]],
   remainder |-> IF Len(pages) > InlineLimit THEN Len(pages) - InlineLimit ELSE -1]

NoNote ==
  /\ note_pc = "off"
  /\ note_configured = FALSE
  /\ note_pages = <<>>
  /\ note_text = NoText
  /\ note_sent = <<>>
  /\ note_result = "none"

InitNote ==
  /\ note_pc = "call"
  /\ note_configured \in BOOLEAN
  /\ note_pages \in NewPageLists
  /\ note_text = NoText
  /\ note_sent = <<>>
  /\ note_result = "none"

\* send_new_pages_notification up to send_text: "if not new_pages: return True", else
\* the text is built; reading an attribute of the site or of a page may raise
BuildNewPagesText ==
  /\ UNCHANGED <<cycle_vars, walk_vars, http_vars, entry_vars, send_vars, drv_vars,
                 race_vars>>
  /\ note_pc = "call"
  /\ IF note_pages = <<>>
     THEN /\ note_result' = "True"
          /\ note_pc' = "done"
          /\ UNCHANGED note_text
     ELSE \/ /\ note_text' = NewPagesText(note_pages)
             /\ note_pc' = "send"
             /\ UNCHANGED note_result
          \/ /\ note_result' = "raised"
             /\ note_pc' = "done"
             /\ UNCHANGED note_text
  /\ UNCHANGED <<note_configured, note_pages, note_sent>>

\* "return self.send_text(text_content)": send_message with the text, which json.dumps
\* accepts; False without the webhook URL or the secret, else one POST of the text and
\* True exactly for an accepted POST
SendNewPagesText ==
  /\ UNCHANGED <<cycle_vars, walk_vars, http_vars, entry_vars, send_vars, drv_vars,
                 race_vars>>
  /\ note_pc = "send"
  /\ IF ~note_configured
     THEN /\ note_result' = "False"
          /\ UNCHANGED note_sent
     ELSE \E o \in PostOutcomes :
            /\ note_sent' = Append(note_sent, note_text)
            /\ note_result' = IF o = "ok" THEN "True" ELSE "False"
  /\ note_pc' = "done"
  /\ UNCHANGED <<note_configured, note_pages, note_text>>

NextNote ==
  \/ BuildNewPagesText
  \/ SendNewPagesText

(* -------------------- run_all_active_sites.main ------------------------- *)

\* one element of sites_to_run: (site.id, site.monitoring_type) of get_sites_to_run,
\* and whether the query of the loop body still finds the site enabled
SiteRow(id, monitoring_type, still_enabled) ==
  [id |-> id, monitoring_type |-> monitoring_type, still_enabled |-> still_enabled]

SiteRows ==
  {SiteRow(i, t, e) : i \in Sites, t \in {"sitemap", "full_crawl"}, e \in BOOLEAN}

\* what get_sites_to_run can return: the enabled sites, each once
SiteLists ==
  {q \in SeqsUpTo(SiteRows, Cardinality(Sites)) :
      \A i, j \in DOMAIN q : q[i].id = q[j].id => i = j}

NoDriver ==
  /\ drv_pc = "off"
  /\ sites_to_run = <<>>
  /\ drv_idx = 1
  /\ success_count = 0
  /\ drv_started = <<>>
  /\ drv_outcomes = <<>>
  /\ drv_session = 0

InitDriver ==
  /\ drv_pc = "start"
  /\ sites_to_run \in SiteLists
  /\ drv_idx = 1
  /\ success_count = 0
  /\ drv_started = <<>>
  /\ drv_outcomes = <<>>
  /\ drv_session = 0

\* an exit status that is 0 as soon as one site succeeded
ZeroIfAnySucceeded(count, listed) == IF count > 0 \/ listed = 0 THEN 0 ELSE 1

\* "return 0 if success_count == len(sites_to_run) else 1"
DriverExitStatus(count, listed) == IF count = listed THEN 0 ELSE 1

\* a loop that an error of one site ends
LoopEnded(at, listed) == listed + 1

\* the except clauses of the loop body print and let the loop go on to the next site
NextIndex(at, listed) == at + 1

(* ------------------------- the entry points ----------------------------- *)

\* main of run.py (one process per cycle), run_crawler(site_id) called as a function,
\* the loop body of run_all_active_sites.main, and SitemapCrawler.process_site() called
\* without session and site
EntryPoints == {"main", "run_crawler", "run_all_active_sites", "process_site"}

SiteConfig(exists, is_enabled, monitoring_type, sitemap_url, is_notification_enabled) ==
  [exists |-> exists, is_enabled |-> is_enabled,
   monitoring_type |-> monitoring_type, sitemap_url |-> sitemap_url,
   is_notification_enabled |-> is_notification_enabled]

\* no row with the site's id
MissingSite == SiteConfig(FALSE, 0, "sitemap", "", 0)

\* an enabled site monitored by sitemap, with notifications enabled (the column's default)
ValidSite == SiteConfig(TRUE, 1, "sitemap", "url", 1)

SiteConfigs ==
  {MissingSite}
  \cup {SiteConfig(TRUE, e, t, u, n) :
          e \in {0, 1}, t \in {"sitemap", "full_crawl"}, u \in {"", "url"}, n \in {0, 1}}

\* query(MonitoredSite).filter(id == site_id, is_enabled == 1).first()
EnabledSiteFound(cfg) == cfg.exists /\ cfg.is_enabled = 1

\* load_site_config returns the site: found and enabled, monitoring_type "sitemap",
\* sitemap_url not empty
LoadSiteConfigAccepts(cfg) ==
  /\ EnabledSiteFound(cfg)
  /\ cfg.monitoring_type = "sitemap"
  /\ cfg.sitemap_url # ""

\* the cycles of Spec are asked by run_crawler for an enabled sitemap site
DefaultEntry ==
  /\ entry_point = "run_crawler"
  /\ site_config = ValidSite
  /\ enable_notification = TRUE
  /\ exit_code = -1
  /\ closing_commit = "none"

\* run_crawler: "notifier = None; if enable_notification: notifier = FeishuNotifier()";
\* run_all_active_sites passes notifier=None
NotifierGiven(entry, enabled) ==
  IF entry \in {"main", "run_crawler"} /\ enabled THEN "FeishuNotifier" ELSE "None"

\* SitemapCrawler.__init__: self.notifier = notifier or FeishuNotifier()
NotifierUsed(given) == IF given = "None" THEN "FeishuNotifier" ELSE given

\* a condition that looks at the site's flag only
NotifyWhenEnabled(pending, cfg) == cfg.is_notification_enabled = 1

\* "if new_pages and site.is_notification_enabled"
ShouldNotifyNewPages(pending, cfg) ==
  pending # <<>> /\ cfg.is_notification_enabled = 1

\* self.notifier of the crawler the entry point has built
self_notifier == NotifierUsed(NotifierGiven(entry_point, enable_notification))

\* self.notifier.send_new_pages_notification / send_error_notification is called
Notify(kind) == Append(notified, kind)

(* ----------------------- one monitoring cycle --------------------------- *)

\* process_site has not returned
NoResult == [success |-> FALSE, count |-> -1, raised |-> FALSE]
Returned(ok, n) == [success |-> ok, count |-> n, raised |-> FALSE]
\* an exception left process_site
Raised == [success |-> FALSE, count |-> -1, raised |-> TRUE]

\* two processes (two cron runs, or run.py beside run_all_active_sites), each with its
\* own session on the one database
Procs == {1, 2}
RaceSite == 1

NoRace ==
  /\ r_pc = [p \in Procs |-> "off"]
  /\ r_existing = [p \in Procs |-> EmptyMap]
  /\ r_entries = [p \in Procs |-> <<>>]
  /\ r_new = [p \in Procs |-> <<>>]
  /\ r_dirty = [p \in Procs |-> EmptyMap]
  /\ r_commit = [p \in Procs |-> "none"]
  /\ r_before = [p \in Procs |-> 0]
  /\ r_logs = [p \in Procs |-> <<>>]
  /\ r_result = [p \in Procs |-> NoResult]

InitCycleState ==
  /\ clock = 0
  /\ db_pages = <<DiscoveredPage(2, "a", 0, 0)>>
  /\ db_last_crawled = [s \in Sites |-> -1]
  /\ crawl_logs = <<>>
  /\ pc = "idle"
  /\ site = 0
  /\ start_time = 0
  /\ existing_urls = EmptyMap
  /\ sitemap_entries = <<>>
  /\ idx = 1
  /\ new_pages = <<>>
  /\ session_dirty = EmptyMap
  /\ new_ix = <<>>
  /\ reseen_ix = <<>>
  /\ ncycles = 0
  /\ result = NoResult
  /\ db_at_start = <<>>
  /\ prev_success = FALSE
  /\ counted_new = [s \in Sites, u \in PageUrls |-> 0]
  /\ notified = <<>>

\* the sitemap of the site is whatever the site publishes at each cycle
InitCycle ==
  /\ InitCycleState
  /\ fixed_content = NoContent
  /\ NoWalk
  /\ NoRequest
  /\ NoSend
  /\ NoDriver
  /\ NoNote
  /\ NoRace
  /\ DefaultEntry

\* the clock of utc_now() advances between cycles and while the sitemaps are fetched
Tick ==
  /\ UNCHANGED not_cycle_vars
  /\ pc \in {"idle", "walk"}
  /\ clock < MaxClock
  /\ clock' = clock + 1
  /\ UNCHANGED <<notified, db_pages, db_last_crawled, crawl_logs, pc, site, start_time,
                 existing_urls, sitemap_entries, idx, new_pages, session_dirty,
                 new_ix, reseen_ix, ncycles, result, db_at_start, counted_new,
                 fixed_content, prev_success>>

\* the locals of process_site and its session
locals == <<start_time, existing_urls, sitemap_entries, idx, new_pages, session_dirty,
            new_ix, reseen_ix, db_at_start>>

\* process_site has returned: its locals are gone, its session holds nothing
ReleaseLocals ==
  /\ start_time' = 0
  /\ existing_urls' = EmptyMap
  /\ sitemap_entries' = <<>>
  /\ idx' = 1
  /\ new_pages' = <<>>
  /\ session_dirty' = EmptyMap
  /\ new_ix' = <<>>
  /\ reseen_ix' = <<>>
  /\ db_at_start' = <<>>

\* an entry of process_site that stamps the site's last_crawled_at when the cycle starts
EnterCycleStamping(s) ==
  /\ ncycles' = ncycles + 1
  /\ site' = s
  /\ start_time' = clock
  /\ existing_urls' = EmptyMap
  /\ sitemap_entries' = <<>>
  /\ idx' = 1
  /\ new_pages' = <<>>
  /\ session_dirty' = EmptyMap
  /\ new_ix' = <<>>
  /\ reseen_ix' = <<>>
  /\ db_at_start' = db_pages
  /\ result' = NoResult
  /\ prev_success' = result.success
  /\ pc' = "load"
  /\ notified' = <<>>
  /\ db_last_crawled' = [db_last_crawled EXCEPT ![s] = clock]
  /\ UNCHANGED <<clock, db_pages, crawl_logs, counted_new, fixed_content>>

\* process_site(session, site) is entered: self.start_time = utc_now(), then the try block
EnterCycle(s) ==
  /\ ncycles' = ncycles + 1
  /\ site' = s
  /\ start_time' = clock
  /\ existing_urls' = EmptyMap
  /\ sitemap_entries' = <<>>
  /\ idx' = 1
  /\ new_pages' = <<>>
  /\ session_dirty' = EmptyMap
  /\ new_ix' = <<>>
  /\ reseen_ix' = <<>>
  /\ db_at_start' = db_pages
  /\ result' = NoResult
  /\ prev_success' = result.success
  /\ pc' = "load"
  /\ notified' = <<>>
  /\ UNCHANGED <<clock, db_pages, db_last_crawled, crawl_logs, counted_new,
                 fixed_content>>

\* the entry point ends without a cycle: what it hands back is kept in result
NoCycle(s, outcome) ==
  /\ ncycles' = ncycles + 1
  /\ site' = s
  /\ result' = outcome
  /\ prev_success' = result.success
  /\ pc' = "idle"
  /\ notified' = <<>>
  /\ UNCHANGED <<clock, db_pages, db_last_crawled, crawl_logs, counted_new,
                 fixed_content, locals>>

\* a caller that has found the enabled sitemap site calls process_site(session, site)
StartCycle(s) ==
  /\ UNCHANGED not_cycle_vars
  /\ pc = "idle"
  /\ ncycles < MaxCycles
  /\ EnterCycle(s)

\* run_crawler(site_id): "if not site: return False", else process_site(session, site),
\* which skips load_site_config because session and site are given
RunCrawler(s) ==
  /\ UNCHANGED not_cycle_vars
  /\ entry_point = "run_crawler"
  /\ pc = "idle"
  /\ ncycles < MaxCycles
  /\ IF EnabledSiteFound(site_config)
     THEN EnterCycle(s)
     ELSE NoCycle(s, Returned(FALSE, 0))

\* run_all_active_sites.main, one site of the list: skipped when it is not found
\* enabled or when its monitoring_type is not "sitemap", else process_site(session, site)
RunAllActiveSites(s) ==
  /\ UNCHANGED not_cycle_vars
  /\ entry_point = "run_all_active_sites"
  /\ pc = "idle"
  /\ ncycles < MaxCycles
  /\ IF EnabledSiteFound(site_config) /\ site_config.monitoring_type = "sitemap"
     THEN EnterCycle(s)
     ELSE NoCycle(s, Returned(FALSE, 0))

\* process_site(): load_site_config; "if not site: return False, ..., 0". The site it
\* returns was expired by the commit and detached by the close of load_site_config's
\* session, so "site.user_agent" (line 211, before the try) raises DetachedInstanceError
ProcessSite(s) ==
  /\ UNCHANGED not_cycle_vars
  /\ entry_point = "process_site"
  /\ pc = "idle"
  /\ ncycles < MaxCycles
  /\ IF LoadSiteConfigAccepts(site_config)
     THEN NoCycle(s, Raised)
     ELSE NoCycle(s, Returned(FALSE, 0))

\* an exit status that ignores what run_crawler returned
ExitStatusZero(success) == 0

\* main: "return 0 if success else 1", handed to sys.exit
ExitStatus(success) == IF success THEN 0 ELSE 1

\* main of run.py up to the call of process_site: init_db(), whose exception leaves
\* main (the interpreter exits with status 1), then run_crawler as above
Main(s) ==
  /\ UNCHANGED <<walk_vars, http_vars, ext_vars, entry_point, site_config,
                 enable_notification>>
  /\ entry_point = "main"
  /\ pc = "idle"
  /\ ncycles < MaxCycles
  /\ ncycles > 0 => exit_code # -1
  /\ closing_commit' = "none"
  /\ \/ /\ exit_code' = 1
        /\ NoCycle(s, NoResult)
     \/ /\ exit_code' = -1
        /\ IF EnabledSiteFound(site_config)
           THEN EnterCycle(s)
           ELSE NoCycle(s, Returned(FALSE, 0))

\* main of run.py after process_site: run_crawler leaves "with get_db_session()", whose
\* exit commits the session; an exception of process_site or of that commit is caught
\* by run_crawler's "except Exception: return False"; main returns the exit status.
\* After a cycle that returned True the session has a transaction to commit only when
\* the notification step read the site, which it does when there are new pages.
MainExit ==
  /\ UNCHANGED <<cycle_vars, walk_vars, http_vars, ext_vars, entry_point, site_config,
                 enable_notification>>
  /\ entry_point = "main"
  /\ pc = "idle"
  /\ ncycles > 0
  /\ exit_code = -1
  /\ IF result.raised
     THEN /\ closing_commit' = "rolled_back"
          /\ exit_code' = ExitStatus(FALSE)
     ELSE \/ /\ closing_commit' = "committed"
             /\ exit_code' = ExitStatus(result.success)
          \/ /\ ~result.success \/ result.count > 0
             /\ closing_commit' = "failed"
             /\ exit_code' = ExitStatus(FALSE)

\* main of run_all_active_sites up to the loop: init_db() and get_sites_to_run(), whose
\* exception leaves main (the interpreter exits with status 1); "if not sites_to_run:
\* return 0"
DriverList ==
  /\ UNCHANGED <<cycle_vars, walk_vars, http_vars, send_vars, more_vars, entry_point, site_config,
                 enable_notification, closing_commit>>
  /\ drv_pc = "start"
  /\ \/ /\ exit_code' = 1
        /\ drv_pc' = "raised"
     \/ /\ sites_to_run = <<>>
        /\ exit_code' = 0
        /\ drv_pc' = "exited"
     \/ /\ sites_to_run # <<>>
        /\ exit_code' = -1
        /\ drv_pc' = "next"
  /\ UNCHANGED <<sites_to_run, drv_idx, success_count, drv_started, drv_outcomes,
                 drv_session>>

\* the iteration of a site ends without a cycle
EndIteration(outcome) ==
  /\ drv_outcomes' = Append(drv_outcomes, outcome)
  /\ drv_session' = 0
  /\ drv_pc' = "next"
  /\ UNCHANGED cycle_vars

\* the loop body up to the call of process_site: a session of its own for the site, the
\* query of the enabled site ("if not site: continue"), the branch on monitoring_type
\* ("continue" for every type but "sitemap"); an exception of the session or of the
\* query is caught by the loop body's "except Exception"
DriverNextSite ==
  /\ UNCHANGED <<walk_vars, http_vars, send_vars, more_vars, entry_vars>>
  /\ drv_pc = "next"
  /\ pc = "idle"
  /\ drv_idx <= Len(sites_to_run)
  /\ LET row == sites_to_run[drv_idx] IN
       /\ drv_started' = Append(drv_started, row.id)
       /\ \/ /\ EndIteration("error")
             /\ drv_idx' = NextIndex(drv_idx, Len(sites_to_run))
          \/ /\ ~row.still_enabled \/ row.monitoring_type # "sitemap"
             /\ EndIteration("skipped")
             /\ drv_idx' = drv_idx + 1
          \/ /\ row.still_enabled
             /\ row.monitoring_type = "sitemap"
             /\ EnterCycle(row.id)
             /\ drv_session' = row.id
             /\ drv_pc' = "cycle"
             /\ UNCHANGED <<drv_idx, drv_outcomes>>
  /\ UNCHANGED <<sites_to_run, success_count>>

\* process_site has returned or raised: "if success: success_count += 1", or the
\* "except Exception" around the call; then time.sleep(1), the exit of the session with
\* its commit (whose exception the loop body catches as well) and the next iteration
DriverAfterCycle ==
  /\ UNCHANGED <<cycle_vars, walk_vars, http_vars, send_vars, more_vars, entry_point, site_config,
                 enable_notification, exit_code>>
  /\ drv_pc = "cycle"
  /\ pc = "idle"
  /\ \/ closing_commit' = "committed"
     \/ /\ result.raised \/ ~result.success \/ result.count > 0
        /\ closing_commit' = "failed"
  /\ IF result.raised
     THEN /\ drv_outcomes' = Append(drv_outcomes, "raised")
          /\ drv_idx' = NextIndex(drv_idx, Len(sites_to_run))
          /\ UNCHANGED success_count
     ELSE IF result.success
     THEN /\ drv_outcomes' = Append(drv_outcomes, "success")
          /\ drv_idx' = drv_idx + 1
          /\ success_count' = success_count + 1
     ELSE /\ drv_outcomes' = Append(drv_outcomes, "failed")
          /\ drv_idx' = drv_idx + 1
          /\ UNCHANGED success_count
  /\ drv_session' = 0
  /\ drv_pc' = "next"
  /\ UNCHANGED <<sites_to_run, drv_started>>

\* the loop has ended: "return 0 if success_count == len(sites_to_run) else 1"
DriverReturn ==
  /\ UNCHANGED <<cycle_vars, walk_vars, http_vars, send_vars, more_vars, entry_point, site_config,
                 enable_notification, closing_commit>>
  /\ drv_pc = "next"
  /\ drv_idx > Len(sites_to_run)
  /\ exit_code' = DriverExitStatus(success_count, Len(sites_to_run))
  /\ drv_pc' = "exited"
  /\ UNCHANGED <<sites_to_run, drv_idx, success_count, drv_started, drv_outcomes,
                 drv_session>>

\* existing_urls = self.get_existing_urls(context_session, site.id); the query may raise
LoadExisting ==
  /\ UNCHANGED not_cycle_vars
  /\ pc = "load"
  /\ \/ /\ existing_urls' = get_existing_urls(db_pages, site)
        /\ pc' = "walk"
     \/ /\ pc' = "except"
        /\ UNCHANGED existing_urls
  /\ UNCHANGED <<notified, clock, db_pages, db_last_crawled, crawl_logs, site, start_time,
                 sitemap_entries, idx, new_pages, session_dirty, new_ix, reseen_ix,
                 ncycles, result, db_at_start, counted_new,
                 fixed_content, prev_success>>

\* what extract_urls_from_sitemap(site.sitemap_url, site.base_url) can return: any list
\* the walk can return; with no sitemap_url every request fails and the list is empty
WalkResults(cfg) ==
  IF cfg.sitemap_url = "" THEN {<<>>}
  ELSE IF fixed_content = NoContent THEN SitemapLists ELSE {fixed_content}

\* sitemap_entries = parser.extract_urls_from_sitemap(...)
ExtractUrls ==
  /\ UNCHANGED not_cycle_vars
  /\ pc = "walk"
  /\ \E E \in WalkResults(site_config) : sitemap_entries' = E
  /\ pc' = "diff"
  /\ UNCHANGED <<notified, clock, db_pages, db_last_crawled, crawl_logs, site, start_time,
                 existing_urls, idx, new_pages, session_dirty, new_ix, reseen_ix,
                 ncycles, result, db_at_start, counted_new,
                 fixed_content, prev_success>>

\* a walk that raises when it could fetch none of the sitemaps it asked for
RaisedOrNothingFetched(wpc, processed) ==
  wpc = "raised" \/ \A u \in processed : web[u].kind \in {"failed", "corrupt_gzip"}

\* an exception left the walk: extract_urls_from_sitemap has no handler of its own and
\* the call is inside the try block of process_site
WalkRaised(wpc, processed) == wpc = "raised"

\* parser.extract_urls_from_sitemap(site.sitemap_url, site.base_url) is entered:
\* processed_sitemaps = set(), all_urls = []
BeginWalk ==
  /\ UNCHANGED <<cycle_vars, http_vars, entry_vars, ext_vars>>
  /\ pc = "walk"
  /\ walk_pc = "off"
  /\ walk_pc' = "start"
  /\ processed_sitemaps' = {}
  /\ all_urls' = <<>>
  /\ stack' = <<>>
  /\ fetch_count' = [u \in SitemapUrls |-> 0]
  /\ request_count' = [u \in SitemapUrls |-> 0]
  /\ UNCHANGED web

\* sitemap_entries = the all_urls the walk returns; an exception of the walk enters the
\* except branch
ExtractUrlsOfWalk ==
  /\ UNCHANGED <<http_vars, entry_vars, ext_vars>>
  /\ pc = "walk"
  /\ walk_pc \in {"done", "raised"}
  /\ walk_pc' = "off"
  /\ IF WalkRaised(walk_pc, processed_sitemaps)
     THEN /\ pc' = "except"
          /\ UNCHANGED sitemap_entries
     ELSE /\ pc' = "diff"
          /\ sitemap_entries' = all_urls
  /\ UNCHANGED <<web, processed_sitemaps, all_urls, stack, fetch_count, request_count>>
  /\ UNCHANGED <<notified, clock, db_pages, db_last_crawled, crawl_logs, site, start_time,
                 existing_urls, idx, new_pages, session_dirty, new_ix, reseen_ix,
                 ncycles, result, db_at_start, counted_new,
                 fixed_content, prev_success>>

\* one iteration of "for i, entry in enumerate(sitemap_entries)" on the loop's
\* accumulators: the pending new pages, the reassigned rows, and which branch ran
DiffEntry(acc, i) ==
  LET url == sitemap_entries[i] IN
    IF IsExisting(url, existing_urls, acc.new_pages)
    THEN \* page = query(DiscoveredPage).filter(site, url).first()
         \* if page: page.last_seen_at = utc_now()
         LET rows == RowsOf(db_pages, site, url) IN
         [acc EXCEPT
            !.session_dirty =
               IF rows = {} THEN @
               ELSE LET first == CHOOSE r \in rows : \A j \in rows : r <= j
                    IN (first :> clock) @@ @,
            !.reseen_ix = Append(@, i)]
    ELSE [acc EXCEPT
            !.new_pages = Append(@, DiscoveredPage(site, url, clock, clock)),
            !.new_ix = Append(@, i)]

RECURSIVE DiffFrom(_, _)
DiffFrom(acc, i) ==
  IF i > Len(sitemap_entries) THEN acc ELSE DiffFrom(DiffEntry(acc, i), i + 1)

\* the loop over sitemap_entries (lines 257-293); a query of the loop may raise
DiffLoop ==
  /\ UNCHANGED not_cycle_vars
  /\ pc = "diff"
  /\ \/ LET acc == DiffFrom([new_pages |-> <<>>, session_dirty |-> EmptyMap,
                             new_ix |-> <<>>, reseen_ix |-> <<>>], 1) IN
          /\ new_pages' = acc.new_pages
          /\ session_dirty' = acc.session_dirty
          /\ new_ix' = acc.new_ix
          /\ reseen_ix' = acc.reseen_ix
          /\ idx' = Len(sitemap_entries) + 1
          /\ pc' = "commit"
     \/ /\ pc' = "except"
        /\ UNCHANGED <<new_pages, session_dirty, new_ix, reseen_ix, idx>>
  /\ UNCHANGED <<notified, clock, db_pages, db_last_crawled, crawl_logs, site, start_time,
                 existing_urls, sitemap_entries, ncycles, result, db_at_start,
                 counted_new, fixed_content, prev_success>>

\* context_session.commit() after the loop: one transaction; it fails when the
\* database rejects the flush (or is unreachable), and then nothing is written
Commit ==
  /\ UNCHANGED not_cycle_vars
  /\ pc = "commit"
  /\ LET flushed == Flushed(db_pages, session_dirty, new_pages) IN
       \/ /\ ConstraintsHold(flushed)
          /\ db_pages' = flushed
          /\ pc' = "update_site"
       \/ /\ pc' = "except"
          /\ UNCHANGED db_pages
  /\ UNCHANGED <<notified, clock, db_last_crawled, crawl_logs, site, start_time, existing_urls,
                 sitemap_entries, idx, new_pages, session_dirty, new_ix, reseen_ix,
                 ncycles, result, db_at_start, counted_new, fixed_content, prev_success>>

\* update_site_last_crawled: site.last_crawled_at = utc_now(); commit
UpdateSiteLastCrawled ==
  /\ UNCHANGED not_cycle_vars
  /\ pc = "update_site"
  /\ \/ /\ db_last_crawled' = [db_last_crawled EXCEPT ![site] = clock]
        /\ pc' = "log"
     \/ /\ pc' = "except"
        /\ UNCHANGED db_last_crawled
  /\ UNCHANGED <<notified, clock, db_pages, crawl_logs, site, start_time, existing_urls,
                 sitemap_entries, idx, new_pages, session_dirty, new_ix, reseen_ix,
                 ncycles, result, db_at_start, counted_new,
                 fixed_content, prev_success>>

\* a status that tells a walk that lost a sitemap from one that reached them all
StatusByReach ==
  IF \E u \in processed_sitemaps : web[u].kind \in {"failed", "corrupt_gzip", "malformed"}
  THEN "partial_success" ELSE "success"

\* status="success" of the log written at the end of the try block
SuccessStatus == "success"

CrawlLog(site_id, status, count, t0) ==
  [monitored_site_id |-> site_id, status |-> status, pages_found_count |-> count]

\* a count that takes every entry of the walk's list for a found page
EntriesCount(pending, entries) == Len(entries)

\* len(new_pages): the pages_found_count of the success log and the count returned
pages_found_count(pending, entries) == Len(pending)

\* create_crawl_log(status="success", pages_found_count=len(new_pages)); commit
CreateSuccessLog ==
  /\ UNCHANGED not_cycle_vars
  /\ pc = "log"
  /\ \/ /\ crawl_logs' = Append(crawl_logs,
                                CrawlLog(site, SuccessStatus,
                                         pages_found_count(new_pages, sitemap_entries),
                                         start_time))
        /\ pc' = "notify"
     \/ /\ pc' = "except"
        /\ UNCHANGED crawl_logs
  /\ UNCHANGED <<notified, clock, db_pages, db_last_crawled, site, start_time, existing_urls,
                 sitemap_entries, idx, new_pages, session_dirty, new_ix, reseen_ix,
                 ncycles, result, db_at_start, counted_new,
                 fixed_content, prev_success>>

\* occurrences of (s, u) among the new pages
TimesNew(pending, s, u) ==
  Cardinality({k \in DOMAIN pending :
                 pending[k].monitored_site_id = s /\ pending[k].url = u})

\* the notification step and "return True, ..., len(new_pages)". With new pages the
\* step reads the site's flag (a refresh of the expired site) and, when it is set, calls
\* the notifier, which reads the site and the pages: either may raise, which enters the
\* except branch. A call on a notifier that is None would raise AttributeError.
NotifyAndReturn ==
  /\ UNCHANGED not_cycle_vars
  /\ pc = "notify"
  /\ \/ /\ ShouldNotifyNewPages(new_pages, site_config) => self_notifier # "None"
        /\ notified' = IF ShouldNotifyNewPages(new_pages, site_config)
                        THEN Notify("new_pages") ELSE notified
        /\ result' = Returned(TRUE, pages_found_count(new_pages, sitemap_entries))
        /\ counted_new' = [s \in Sites, u \in PageUrls |->
                              counted_new[s, u] + TimesNew(new_pages, s, u)]
        /\ pc' = "idle"
        /\ ReleaseLocals
     \/ /\ new_pages # <<>>
        /\ \/ UNCHANGED notified
           \/ /\ ShouldNotifyNewPages(new_pages, site_config)
              /\ self_notifier # "None"
              /\ notified' = Notify("new_pages")
        /\ pc' = "except"
        /\ UNCHANGED <<result, counted_new, locals>>
  /\ UNCHANGED <<clock, db_pages, db_last_crawled, crawl_logs, site, ncycles,
                 fixed_content, prev_success>>

\* except Exception: create_crawl_log(status="failed") in a session of its own, the
\* error notification if the site has notifications enabled, then "return False, ..., 0".
\* The handler has no handler of its own: when the log write raises, or when the
\* notification raises after the log was committed, the exception leaves process_site
HandleException ==
  /\ UNCHANGED not_cycle_vars
  /\ pc = "except"
  /\ \/ /\ crawl_logs' = Append(crawl_logs, CrawlLog(site, "failed", 0, start_time))
        /\ site_config.is_notification_enabled = 1 => self_notifier # "None"
        /\ notified' = IF site_config.is_notification_enabled = 1
                        THEN Notify("error") ELSE notified
        /\ result' = Returned(FALSE, 0)
     \/ /\ UNCHANGED <<crawl_logs, notified>>
        /\ result' = Raised
     \/ /\ crawl_logs' = Append(crawl_logs, CrawlLog(site, "failed", 0, start_time))
        /\ \/ UNCHANGED notified
           \/ /\ site_config.is_notification_enabled = 1
              /\ self_notifier # "None"
              /\ notified' = Notify("error")
        /\ result' = Raised
  /\ pc' = "idle"
  /\ ReleaseLocals
  /\ UNCHANGED <<clock, db_pages, db_last_crawled, site, ncycles, counted_new,
                 fixed_content, prev_success>>

NextCycle ==
  \/ Tick
  \/ \E s \in MonitoredSites : StartCycle(s)
  \/ LoadExisting
  \/ ExtractUrls
  \/ DiffLoop
  \/ Commit
  \/ UpdateSiteLastCrawled
  \/ CreateSuccessLog
  \/ NotifyAndReturn
  \/ HandleException

(* ------------- two concurrent cycles of the same site ------------------- *)

InitRace ==
  /\ r_pc = [p \in Procs |-> "load"]
  /\ r_existing = [p \in Procs |-> EmptyMap]
  /\ r_entries = [p \in Procs |-> <<>>]
  /\ r_new = [p \in Procs |-> <<>>]
  /\ r_dirty = [p \in Procs |-> EmptyMap]
  /\ r_commit = [p \in Procs |-> "none"]
  /\ r_before = [p \in Procs |-> 0]
  /\ r_logs = [p \in Procs |-> <<>>]
  /\ r_result = [p \in Procs |-> NoResult]

\* the page commits attempted so far
CommitsAttempted == Cardinality({q \in Procs : r_commit[q] # "none"})

\* the loop over sitemap_entries (lines 257-293) of one call, on its own locals
RECURSIVE RaceDiffFrom(_, _, _, _)
RaceDiffFrom(acc, entries, existing, i) ==
  IF i > Len(entries) THEN acc
  ELSE LET url == entries[i]
           rows == RowsOf(db_pages, RaceSite, url)
           next ==
             IF IsExisting(url, existing, acc.new_pages)
             THEN [acc EXCEPT
                     !.session_dirty =
                        IF rows = {} THEN @
                        ELSE LET first == CHOOSE r \in rows : \A j \in rows : r <= j
                             IN (first :> clock) @@ @]
             ELSE [acc EXCEPT
                     !.new_pages = Append(@, DiscoveredPage(RaceSite, url, clock, clock))]
       IN RaceDiffFrom(next, entries, existing, i + 1)

\* what no step of the two calls touches
race_frame == <<clock, pc, site, start_time, existing_urls, sitemap_entries, idx, new_pages,
                session_dirty, new_ix, reseen_ix, ncycles, result, db_at_start,
                fixed_content, prev_success, counted_new, notified, walk_vars, http_vars,
                entry_vars, send_vars, drv_vars, note_vars>>

\* an exception in the try block of call p: on to "except Exception"
RaceRaise(p) == r_pc' = [r_pc EXCEPT ![p] = "except"]

\* existing_urls = self.get_existing_urls(context_session, site.id)
RaceLoad(p) ==
  /\ UNCHANGED <<race_frame, db_pages, db_last_crawled, crawl_logs>>
  /\ r_pc[p] = "load"
  /\ \/ /\ r_existing' = [r_existing EXCEPT ![p] = get_existing_urls(db_pages, RaceSite)]
        /\ r_before' = [r_before EXCEPT ![p] = CommitsAttempted]
        /\ r_pc' = [r_pc EXCEPT ![p] = "walk"]
     \/ /\ RaceRaise(p)
        /\ UNCHANGED <<r_existing, r_before>>
  /\ UNCHANGED <<r_entries, r_new, r_dirty, r_commit, r_logs, r_result>>

\* sitemap_entries = parser.extract_urls_from_sitemap(...): what the site publishes
RaceWalk(p) ==
  /\ UNCHANGED <<race_frame, db_pages, db_last_crawled, crawl_logs>>
  /\ r_pc[p] = "walk"
  /\ \/ /\ \E E \in SitemapLists : r_entries' = [r_entries EXCEPT ![p] = E]
        /\ r_pc' = [r_pc EXCEPT ![p] = "diff"]
     \/ /\ RaceRaise(p)
        /\ UNCHANGED r_entries
  /\ UNCHANGED <<r_existing, r_new, r_dirty, r_commit, r_before, r_logs, r_result>>

\* the loop over sitemap_entries; a query of the loop may raise
RaceDiff(p) ==
  /\ UNCHANGED <<race_frame, db_pages, db_last_crawled, crawl_logs>>
  /\ r_pc[p] = "diff"
  /\ \/ LET acc == RaceDiffFrom([new_pages |-> <<>>, session_dirty |-> EmptyMap],
                                 r_entries[p], r_existing[p], 1) IN
          /\ r_new' = [r_new EXCEPT ![p] = acc.new_pages]
          /\ r_dirty' = [r_dirty EXCEPT ![p] = acc.session_dirty]
          /\ r_pc' = [r_pc EXCEPT ![p] = "commit"]
     \/ /\ RaceRaise(p)
        /\ UNCHANGED <<r_new, r_dirty>>
  /\ UNCHANGED <<r_existing, r_entries, r_commit, r_before, r_logs, r_result>>

\* context_session.commit() of call p: one transaction on the database as the other
\* call has left it; rejected by the unique constraint (or failing otherwise), it
\* writes nothing
RaceCommit(p) ==
  /\ UNCHANGED <<race_frame, db_last_crawled, crawl_logs>>
  /\ r_pc[p] = "commit"
  /\ LET flushed == Flushed(db_pages, r_dirty[p], r_new[p]) IN
       \/ /\ ConstraintsHold(flushed)
          /\ db_pages' = flushed
          /\ r_commit' = [r_commit EXCEPT ![p] = "accepted"]
          /\ r_pc' = [r_pc EXCEPT ![p] = "finish"]
       \/ /\ UNCHANGED db_pages
          /\ r_commit' = [r_commit EXCEPT ![p] = "rejected"]
          /\ RaceRaise(p)
  /\ UNCHANGED <<r_existing, r_entries, r_new, r_dirty, r_before, r_logs, r_result>>

\* the rest of the try block of call p: update_site_last_crawled, the success record,
\* the notification and "return True, ..., len(new_pages)"; the exception of a step
\* leaves what the steps before it committed
RaceFinish(p) ==
  /\ UNCHANGED <<race_frame, db_pages>>
  /\ r_pc[p] = "finish"
  /\ \/ /\ db_last_crawled' = [db_last_crawled EXCEPT ![RaceSite] = clock]
        /\ crawl_logs' = Append(crawl_logs,
                                CrawlLog(RaceSite, SuccessStatus, Len(r_new[p]), clock))
        /\ r_logs' = [r_logs EXCEPT ![p] = Append(@, SuccessStatus)]
        /\ r_result' = [r_result EXCEPT ![p] = Returned(TRUE, Len(r_new[p]))]
        /\ r_pc' = [r_pc EXCEPT ![p] = "done"]
     \/ /\ RaceRaise(p)
        /\ UNCHANGED <<db_last_crawled, crawl_logs, r_logs, r_result>>
     \/ /\ db_last_crawled' = [db_last_crawled EXCEPT ![RaceSite] = clock]
        /\ RaceRaise(p)
        /\ UNCHANGED <<crawl_logs, r_logs, r_result>>
     \/ /\ r_new[p] # <<>>
        /\ db_last_crawled' = [db_last_crawled EXCEPT ![RaceSite] = clock]
        /\ crawl_logs' = Append(crawl_logs,
                                CrawlLog(RaceSite, SuccessStatus, Len(r_new[p]), clock))
        /\ r_logs' = [r_logs EXCEPT ![p] = Append(@, SuccessStatus)]
        /\ RaceRaise(p)
        /\ UNCHANGED r_result
  /\ UNCHANGED <<r_existing, r_entries, r_new, r_dirty, r_commit, r_before>>

\* except Exception of call p: the failed record and "return False, ..., 0", or an
\* exception of the handler's own steps, which leaves process_site
RaceHandle(p) ==
  /\ UNCHANGED <<race_frame, db_pages, db_last_crawled>>
  /\ r_pc[p] = "except"
  /\ \/ /\ crawl_logs' = Append(crawl_logs, CrawlLog(RaceSite, "failed", 0, clock))
        /\ r_logs' = [r_logs EXCEPT ![p] = Append(@, "failed")]
        /\ r_result' = [r_result EXCEPT ![p] = Returned(FALSE, 0)]
     \/ /\ UNCHANGED <<crawl_logs, r_logs>>
        /\ r_result' = [r_result EXCEPT ![p] = Raised]
     \/ /\ crawl_logs' = Append(crawl_logs, CrawlLog(RaceSite, "failed", 0, clock))
        /\ r_logs' = [r_logs EXCEPT ![p] = Append(@, "failed")]
        /\ r_result' = [r_result EXCEPT ![p] = Raised]
  /\ r_pc' = [r_pc EXCEPT ![p] = "done"]
  /\ UNCHANGED <<r_existing, r_entries, r_new, r_dirty, r_commit, r_before>>

NextRace ==
  \/ Tick
  \/ \E p \in Procs : RaceLoad(p)
  \/ \E p \in Procs : RaceWalk(p)
  \/ \E p \in Procs : RaceDiff(p)
  \/ \E p \in Procs : RaceCommit(p)
  \/ \E p \in Procs : RaceFinish(p)
  \/ \E p \in Procs : RaceHandle(p)

Init == InitCycle
Next == NextCycle
Spec == Init /\ [][Next]_vars

\* the same cycles over a sitemap whose content stays the same from cycle to cycle
InitSame ==
  /\ InitCycleState
  /\ fixed_content \in SitemapLists
  /\ NoWalk
  /\ NoRequest
  /\ NoSend
  /\ NoDriver
  /\ NoNote
  /\ NoRace
  /\ DefaultEntry
SpecSame == InitSame /\ [][Next]_vars

\* the sitemap content of the cycles asked through the entry points
EntryContent == {<<"a", "b">>}

\* one site row of any kind, and cycles for it asked through one of the entry points
InitEntry ==
  /\ InitCycleState
  /\ fixed_content \in EntryContent
  /\ NoWalk
  /\ NoRequest
  /\ NoSend
  /\ NoDriver
  /\ NoNote
  /\ NoRace
  /\ entry_point \in EntryPoints
  /\ site_config \in SiteConfigs
  /\ enable_notification \in BOOLEAN
  /\ exit_code = -1
  /\ closing_commit = "none"

NextEntry ==
  \/ Tick
  \/ \E s \in MonitoredSites : Main(s)
  \/ MainExit
  \/ \E s \in MonitoredSites : RunCrawler(s)
  \/ \E s \in MonitoredSites : RunAllActiveSites(s)
  \/ \E s \in MonitoredSites : ProcessSite(s)
  \/ LoadExisting
  \/ ExtractUrls
  \/ DiffLoop
  \/ Commit
  \/ UpdateSiteLastCrawled
  \/ CreateSuccessLog
  \/ NotifyAndReturn
  \/ HandleException

SpecEntry == InitEntry /\ [][NextEntry]_vars

\* a web whose root is an index of the two other sitemaps
IndexWeb(c2, c3) ==
  [u \in SitemapUrls |->
     IF u = RootSitemap THEN Document("index", <<"s2", "s3">>, <<>>)
     ELSE IF u = "s2" THEN c2 ELSE c3]

\* a web none of whose sitemaps can be fetched
UnreachableWeb == [u \in SitemapUrls |-> Document("failed", <<>>, <<>>)]

\* what a child sitemap of the crawled webs answers with
ChildDocuments ==
  {Document("failed", <<>>, <<>>), Document("malformed", <<>>, <<>>),
   Document("corrupt_gzip", <<>>, <<>>),
   Document("leaf", <<>>, <<"a">>), Document("leaf", <<>>, <<"b">>)}

CrawlWebs == {UnreachableWeb} \cup {IndexWeb(c2, c3) : c2, c3 \in ChildDocuments}

\* cycles of an enabled sitemap site whose sitemap_entries come from a walk of its web
InitCrawl ==
  /\ InitCycleState /\ fixed_content = NoContent
  /\ web \in CrawlWebs
  /\ walk_pc = "off"
  /\ processed_sitemaps = {}
  /\ all_urls = <<>>
  /\ stack = <<>>
  /\ fetch_count = [u \in SitemapUrls |-> 0]
  /\ request_count = [u \in SitemapUrls |-> 0]
  /\ NoRequest
  /\ NoSend
  /\ NoDriver
  /\ NoNote
  /\ NoRace
  /\ DefaultEntry

NextCrawl ==
  \/ Tick
  \/ \E s \in MonitoredSites : StartCycle(s)
  \/ LoadExisting
  \/ BeginWalk
  \/ WalkCallRoot
  \/ WalkNextChild
  \/ WalkReturn
  \/ WalkDone
  \/ ExtractUrlsOfWalk
  \/ DiffLoop
  \/ Commit
  \/ UpdateSiteLastCrawled
  \/ CreateSuccessLog
  \/ NotifyAndReturn
  \/ HandleException

SpecCrawl == InitCrawl /\ [][NextCrawl]_vars

\* one walk over any web of sitemap documents; the walk is a sequential computation
\* that is never suspended
InitWalkOnly ==
  /\ InitCycleState /\ fixed_content = NoContent
  /\ InitWalk
  /\ NoRequest
  /\ NoSend
  /\ NoDriver
  /\ NoNote
  /\ NoRace
  /\ DefaultEntry

SpecWalk == InitWalkOnly /\ [][NextWalk]_vars /\ WF_vars(NextWalk)

\* one call of make_request, with any method and any outcome of each attempt
InitRequestOnly ==
  /\ InitCycleState /\ fixed_content = NoContent
  /\ NoWalk
  /\ InitRequest
  /\ NoSend
  /\ NoDriver
  /\ NoNote
  /\ NoRace
  /\ DefaultEntry

SpecRequest == InitRequestOnly /\ [][NextRequest]_vars

\* up to MaxMessages calls of send_message on one notifier, with any outcome of each POST
InitSendOnly ==
  /\ InitCycleState /\ fixed_content = NoContent
  /\ NoWalk
  /\ NoRequest
  /\ InitSend
  /\ NoDriver
  /\ NoNote
  /\ NoRace
  /\ DefaultEntry

SpecSend == InitSendOnly /\ [][NextSend]_vars

\* one run of run_all_active_sites.main over any list of enabled sites
InitDriverOnly ==
  /\ InitCycleState
  /\ fixed_content \in EntryContent
  /\ NoWalk
  /\ NoRequest
  /\ NoSend
  /\ InitDriver
  /\ NoNote
  /\ NoRace
  /\ entry_point = "run_all_active_sites"
  /\ site_config = ValidSite
  /\ enable_notification = TRUE
  /\ exit_code = -1
  /\ closing_commit = "none"

NextDriver ==
  \/ Tick
  \/ DriverList
  \/ DriverNextSite
  \/ DriverAfterCycle
  \/ DriverReturn
  \/ LoadExisting
  \/ ExtractUrls
  \/ DiffLoop
  \/ Commit
  \/ UpdateSiteLastCrawled
  \/ CreateSuccessLog
  \/ NotifyAndReturn
  \/ HandleException

SpecDriver == InitDriverOnly /\ [][NextDriver]_vars

\* one call of send_new_pages_notification with any list of new pages
InitNoteOnly ==
  /\ InitCycleState
  /\ fixed_content = NoContent
  /\ NoWalk
  /\ NoRequest
  /\ NoSend
  /\ NoDriver
  /\ InitNote
  /\ NoRace
  /\ DefaultEntry

SpecNote == InitNoteOnly /\ [][NextNote]_vars

\* a table that holds one page of the site and one of another site
RaceTable == <<DiscoveredPage(2, "a", 0, 0), DiscoveredPage(RaceSite, "a", 0, 0)>>

\* two calls of process_site for site 1 at once
InitRaceOnly ==
  /\ clock = 0
  /\ db_pages = RaceTable
  /\ db_last_crawled = [s \in Sites |-> -1]
  /\ crawl_logs = <<>>
  /\ pc = "idle"
  /\ site = 0
  /\ start_time = 0
  /\ existing_urls = EmptyMap
  /\ sitemap_entries = <<>>
  /\ idx = 1
  /\ new_pages = <<>>
  /\ session_dirty = EmptyMap
  /\ new_ix = <<>>
  /\ reseen_ix = <<>>
  /\ ncycles = 0
  /\ result = NoResult
  /\ db_at_start = <<>>
  /\ prev_success = FALSE
  /\ counted_new = [s \in Sites, u \in PageUrls |-> 0]
  /\ notified = <<>>
  /\ fixed_content = NoContent
  /\ NoWalk
  /\ NoRequest
  /\ NoSend
  /\ NoDriver
  /\ NoNote
  /\ InitRace
  /\ DefaultEntry

SpecRace == InitRaceOnly /\ [][NextRace]_vars

(* ------------------------ properties of the cycle ------------------------ *)

Occurrences(q, x) == Cardinality({k \in DOMAIN q : q[k] = x})

\* the diff loop of the running cycle has run to its end
LoopDone ==
  /\ pc \in {"commit", "update_site", "log", "notify", "except"}
  /\ idx > Len(sitemap_entries)

\* the commit of the running cycle has succeeded
Committed == pc \in {"update_site", "log", "notify"}

\* C1: diff partition law. When the loop has ended, every entry of the walk's list was
\* classified exactly once, as reseen iff its URL is a key of the loaded existing-URL
\* map and as new otherwise; the new pages are the new entries, in order.
C1_DiffPartition ==
  LoopDone =>
    LET E == sitemap_entries
        S == DOMAIN existing_urls
    IN /\ \A i \in DOMAIN E :
            /\ Occurrences(new_ix, i) + Occurrences(reseen_ix, i) = 1
            /\ (Occurrences(reseen_ix, i) = 1) <=> (E[i] \in S)
            /\ (Occurrences(new_ix, i) = 1) <=> (E[i] \notin S)
       /\ Range(new_ix) \cap Range(reseen_ix) = {}
       /\ Range(new_ix) \cup Range(reseen_ix) = DOMAIN E
       /\ Len(new_pages) = Len(new_ix)
       /\ \A k \in DOMAIN new_pages : new_pages[k].url = E[new_ix[k]]

\* a list with a repeated new URL and an already recorded one has been diffed
C1_Witness ==
  /\ LoopDone
  /\ Len(sitemap_entries) = 3
  /\ Len(reseen_ix) = 1
  /\ Len(new_ix) = 2
  /\ new_pages[1].url = new_pages[2].url

\* C2: idempotence. In a cycle that follows a successful cycle over the same sitemap
\* content, no entry is new and no page is inserted, and once the cycle has committed,
\* every URL listed in the sitemap has a last_seen_at set within this cycle.
C2_Idempotent ==
  (pc # "idle" /\ prev_success /\ fixed_content # NoContent) =>
    /\ new_pages = <<>>
    /\ new_ix = <<>>
    /\ Len(db_pages) = Len(db_at_start)
    /\ Committed =>
         \A u \in Range(fixed_content) :
            /\ RowsOf(db_pages, site, u) # {}
            /\ \A r \in RowsOf(db_pages, site, u) :
                  db_pages[r].last_seen_at >= start_time

\* the second of two cycles over the same two URLs has committed, at a later time
C2_Witness ==
  /\ prev_success
  /\ fixed_content # NoContent
  /\ Len(fixed_content) = 2
  /\ pc = "notify"
  /\ \A u \in Range(fixed_content) :
        \E r \in RowsOf(db_pages, site, u) :
           db_pages[r].first_discovered_at < db_pages[r].last_seen_at

\* C3: a URL is counted as new by at most one successful cycle of its site; in every
\* cycle an entry is new iff the site had no record of its URL when the cycle started,
\* and every URL that a successful cycle has reported is reseen from then on.
C3_NewAtMostOnce ==
  /\ \A s \in Sites, u \in PageUrls : counted_new[s, u] <= 1
  /\ LoopDone =>
       \A i \in DOMAIN sitemap_entries :
          /\ (Occurrences(new_ix, i) = 1)
                <=> (RowsOf(db_at_start, site, sitemap_entries[i]) = {})
          /\ counted_new[site, sitemap_entries[i]] >= 1 => Occurrences(reseen_ix, i) = 1

\* after a successful cycle reported a and b, the sitemap lists a, b, c: 1 new, 2 reseen
C3_Witness ==
  /\ LoopDone
  /\ sitemap_entries = <<"a", "b", "c">>
  /\ counted_new[site, "a"] = 1
  /\ counted_new[site, "b"] = 1
  /\ counted_new[site, "c"] = 0
  /\ Len(new_ix) = 1
  /\ Len(reseen_ix) = 2
  /\ new_pages[1].url = "c"

\* C4: no two committed DiscoveredPage rows have the same (monitored_site_id, url).
C4_UniqueSiteUrl == UniqueSiteUrl(db_pages)

\* a commit that would have stored a second row for a recorded (site, url) was refused,
\* while the same URL is recorded for two different sites
C4_Witness ==
  /\ pc = "except"
  /\ idx > Len(sitemap_entries)
  /\ new_pages # <<>>
  /\ ~UniqueSiteUrl(Flushed(db_pages, session_dirty, new_pages))
  /\ \E i, j \in DOMAIN db_pages :
        /\ db_pages[i].url = db_pages[j].url
        /\ db_pages[i].monitored_site_id # db_pages[j].monitored_site_id

\* the cycle is in its failure branch: an exception was caught by "except Exception"
Failed == pc = "except"

\* C13: the commit step is one atomic unit: a state in which the page changes of the
\* running cycle are persistent shows the site's last_crawled_at set by this cycle too
\* (a last_crawled_at left by an earlier cycle is older than this cycle's start), also
\* when a step has failed in between.
C13_CommitAtomic ==
  (Failed /\ db_pages # db_at_start) =>
     /\ db_last_crawled[site] # -1
     /\ db_last_crawled[site] >= start_time

\* C14: a cycle that ends Failed leaves nothing half-applied: when process_site returns
\* False or a failed record is written, the pages are those of before the cycle and
\* last_crawled_at has not been set after the cycle's start.
C14_FailedLeavesNothing ==
  [][(Failed /\ (result' = Returned(FALSE, 0) \/ crawl_logs' # crawl_logs))
       => /\ db_pages' = db_at_start
          /\ db_last_crawled'[site] <= start_time]_vars

\* C15: a failure of the new-pages notification, a raised error included, never aborts
\* the cycle: the notification step is followed by the return of success, with the
\* committed pages and the cycle's success record as they are.
C15_NotificationFailureHarmless ==
  [][pc = "notify"
       => /\ pc' = "idle"
          /\ result' = Returned(TRUE, Len(new_pages))
          /\ db_pages' = db_pages
          /\ crawl_logs' = crawl_logs]_vars

\* C16: every exception caught after Init ends in Failed: a record with status failed
\* and pages_found_count 0 is appended and process_site returns (False, message, 0).
C16_ExceptionEndsFailed ==
  [][Failed
       => /\ crawl_logs' = Append(crawl_logs, CrawlLog(site, "failed", 0, start_time))
          /\ result' = Returned(FALSE, 0)]_vars

\* C17: failure handling is best-effort: no failure inside the failure handler is
\* re-raised, process_site returns its Failed result.
C17_HandlerNeverRaises ==
  [][Failed => (pc' = "idle" /\ ~result'.raised /\ ~result'.success)]_vars

IsPrefix(p, q) == Len(p) <= Len(q) /\ SubSeq(q, 1, Len(p)) = p

\* C18: every cycle appends exactly one record: records are only appended, and whenever
\* process_site has ended there are as many records as cycles.
C18_OneRecordPerCycle ==
  [][/\ IsPrefix(crawl_logs, crawl_logs')
     /\ pc' = "idle" => Len(crawl_logs') = ncycles']_vars

\* C20: every page the running cycle inserts has first_discovered_at = last_seen_at =
\* the cycle's start_time, no title and is_processed = 0.
C20_InsertedAtStartTime ==
  \A k \in DOMAIN new_pages :
     /\ new_pages[k].first_discovered_at = start_time
     /\ new_pages[k].last_seen_at = start_time
     /\ new_pages[k].page_title = "None"
     /\ new_pages[k].is_processed = 0

\* the site fails the validation of Init
InvalidSite(cfg) ==
  \/ ~cfg.exists
  \/ cfg.is_enabled # 1
  \/ cfg.monitoring_type # "sitemap"
  \/ cfg.sitemap_url = ""

\* C19: a cycle asked for a site that does not exist, is disabled, is not monitored by
\* sitemap or has no sitemap URL ends Failed at Init, through every entry point: no
\* sitemap is fetched, no DiscoveredPage changes, no history record is written.
C19_InitValidation ==
  InvalidSite(site_config) =>
     /\ pc \notin {"walk", "diff", "commit", "update_site", "log", "notify"}
     /\ crawl_logs = <<>>
     /\ db_pages = <<DiscoveredPage(2, "a", 0, 0)>>
     /\ \A s \in Sites : db_last_crawled[s] = -1
     /\ ncycles > 0 /\ pc = "idle" => ~result.success

\* C22: a cycle that returns success has written a success log whose pages_found_count
\* is the number of rows the cycle inserted, and returns that same count; the rows
\* inserted are the new pages of the diff.
C22_SuccessCount ==
  [][(pc = "notify" /\ pc' = "idle") =>
       LET log == crawl_logs[Len(crawl_logs)]
           inserted == Len(db_pages) - Len(db_at_start)
       IN /\ Len(crawl_logs) > 0
          /\ log.status = "success"
          /\ log.monitored_site_id = site
          /\ log.pages_found_count = inserted
          /\ inserted = Len(new_ix)
          /\ \A k \in 1..inserted : db_pages[Len(db_at_start) + k] = new_pages[k]
          /\ result' = Returned(TRUE, inserted)]_vars

\* the first cycle of a site with no recorded page has returned over a sitemap of two
\* distinct URLs: two rows of the site, a success log of 2, a returned count of 2
C22_Witness ==
  /\ pc = "idle"
  /\ ncycles = 1
  /\ result = Returned(TRUE, 2)
  /\ crawl_logs = <<CrawlLog(1, "success", 2, 0)>>
  /\ Cardinality(RowsOfSite(db_pages, 1)) = 2

\* C26: no step deletes a page or changes its (site, URL): the table only grows, and a
\* row of another site, or of a URL that the running cycle's sitemap does not list, is
\* left exactly as it was.
C26_NeverDeletes ==
  [][/\ Len(db_pages') >= Len(db_pages)
     /\ \A i \in DOMAIN db_pages :
          /\ db_pages'[i].monitored_site_id = db_pages[i].monitored_site_id
          /\ db_pages'[i].url = db_pages[i].url
          /\ (db_pages[i].monitored_site_id # site
                 \/ db_pages[i].url \notin Range(sitemap_entries))
               => db_pages'[i] = db_pages[i]]_vars

\* a later cycle has committed a new page while a page recorded by an earlier cycle,
\* at an earlier time, was absent from the sitemap
C26_Witness ==
  /\ Committed
  /\ Len(db_pages) > Len(db_at_start)
  /\ \E i \in RowsOfSite(db_at_start, site) :
        /\ db_at_start[i].url \notin Range(sitemap_entries)
        /\ db_at_start[i].last_seen_at < clock

\* C27: once the cycle has committed, every page that was recorded for the site when the
\* cycle started and is listed by the sitemap differs from what it was only in
\* last_seen_at, which is a time of this cycle; it is still the only row of its URL and
\* the URL is not among the new pages.
C27_ReseenOnlyLastSeen ==
  Committed =>
    \A i \in RowsOfSite(db_at_start, site) :
       db_at_start[i].url \in Range(sitemap_entries) =>
         /\ db_pages[i] = [db_at_start[i] EXCEPT !.last_seen_at = db_pages[i].last_seen_at]
         /\ db_pages[i].last_seen_at \in start_time..clock
         /\ RowsOf(db_pages, site, db_at_start[i].url) = {i}
         /\ \A k \in DOMAIN new_pages : new_pages[k].url # db_at_start[i].url
         /\ \A k \in DOMAIN new_ix : sitemap_entries[new_ix[k]] # db_at_start[i].url

\* a page discovered by an earlier cycle was seen again at a later time
C27_Witness ==
  /\ Committed
  /\ \E i \in RowsOfSite(db_at_start, site) :
        /\ db_at_start[i].url \in Range(sitemap_entries)
        /\ db_pages[i].last_seen_at > db_at_start[i].last_seen_at
        /\ db_pages[i].first_discovered_at < db_pages[i].last_seen_at

\* C30: when the walk's list holds a URL not yet recorded more than once, the diff
\* makes one new page for it.
C30_DuplicateNewOnce ==
  LoopDone =>
    \A u \in Range(sitemap_entries) :
       u \notin DOMAIN existing_urls => TimesNew(new_pages, site, u) = 1

\* the run.py process has exited
Exited == entry_point = "main" /\ exit_code # -1

\* a success log of the site is the last log written
SuccessLogWritten ==
  /\ crawl_logs # <<>>
  /\ crawl_logs[Len(crawl_logs)].monitored_site_id = site
  /\ crawl_logs[Len(crawl_logs)].status = "success"

C23_NewPagesNotification ==
  [][/\ Occurrences(notified', "new_pages") <= 1
     /\ Occurrences(notified', "new_pages") > Occurrences(notified, "new_pages") =>
          /\ pc = "notify"
          /\ new_pages # <<>>
          /\ site_config.is_notification_enabled = 1
          /\ \A k \in DOMAIN new_pages : db_pages[Len(db_at_start) + k] = new_pages[k]
     /\ (pc = "notify" /\ pc' = "idle") =>
          (notified' = <<"new_pages">>
             <=> (new_pages # <<>> /\ site_config.is_notification_enabled = 1))
     /\ (pc = "notify" /\ pc' = "idle" /\ notified' # <<"new_pages">>) => notified' = <<>>
    ]_vars

\* a cycle that found two new pages for a site with notifications enabled has returned
\* after asking for the notification
C23_Witness ==
  /\ pc = "idle"
  /\ result = Returned(TRUE, 2)
  /\ site_config.is_notification_enabled = 1
  /\ notified = <<"new_pages">>

\* C24: a cycle run with enable_notification = False (--no-notify) asks for no
\* notification, whatever the site's flag.
C24_NoNotifySendsNothing ==
  (entry_point \in {"main", "run_crawler"} /\ ~enable_notification) => notified = <<>>

\* the walk of the running cycle asked for a sitemap that it could not fetch or parse
SitemapLost ==
  \E u \in processed_sitemaps : web[u].kind \in {"failed", "corrupt_gzip", "malformed"}

\* C28: every log written has status success or failed; the log written at the end of
\* a cycle whose walk lost a sitemap, while no exception was raised, has status success.
C28_SuccessOrFailed ==
  /\ \A k \in DOMAIN crawl_logs : crawl_logs[k].status \in {"success", "failed"}
  /\ (pc = "notify" /\ SitemapLost) =>
        /\ crawl_logs[Len(crawl_logs)].status = "success"
        /\ crawl_logs[Len(crawl_logs)].monitored_site_id = site

\* the success log of a cycle has been written after a walk that found a page in one
\* child sitemap and could not fetch the other
C28_Witness ==
  /\ pc = "notify"
  /\ web["s2"].kind = "failed"
  /\ web["s3"].kind = "leaf"
  /\ processed_sitemaps = SitemapUrls
  /\ Len(new_pages) = 1
  /\ crawl_logs[Len(crawl_logs)] = CrawlLog(site, "success", 1, start_time)

\* C29: in a cycle for a site none of whose sitemaps can be fetched, the walk does not
\* raise and gives no entry, the diff makes no new page and reassigns no row, no step
\* changes the pages, the success log has count 0 and is written after last_crawled_at
\* was set in this cycle, and the notification step returns success with count 0
\* without asking for a notification.
C29_AllFetchesFail ==
  [][(web = UnreachableWeb /\ pc # "idle") =>
       /\ pc = "walk" => pc' \in {"walk", "diff"}
       /\ pc' = "diff" => sitemap_entries' = <<>>
       /\ pc' = "commit" => (new_pages' = <<>> /\ session_dirty' = EmptyMap)
       /\ db_pages' = db_pages
       /\ pc' = "notify" =>
             /\ crawl_logs' = Append(crawl_logs, CrawlLog(site, "success", 0, start_time))
             /\ db_last_crawled[site] \in start_time..clock
       /\ pc = "notify" =>
             /\ pc' = "idle"
             /\ result' = Returned(TRUE, 0)
             /\ notified' = <<>>]_vars

\* a cycle has returned for a site whose root sitemap could not be fetched
C29_Witness ==
  /\ web = UnreachableWeb
  /\ pc = "idle"
  /\ ncycles = 1
  /\ fetch_count[RootSitemap] = 1
  /\ result = Returned(TRUE, 0)
  /\ crawl_logs = <<CrawlLog(1, "success", 0, 0)>>
  /\ db_last_crawled[1] >= 0
  /\ db_pages = <<DiscoveredPage(2, "a", 0, 0)>>
  /\ notified = <<>>

\* the existing-URL map of the running cycle has been loaded
MapLoaded == pc \in {"walk", "diff", "commit", "update_site", "log", "notify"}

\* the sitemap walk of the running cycle has returned
WalkCompleted == pc \in {"diff", "commit", "update_site", "log", "notify"}

\* C33: the existing-URL map of a cycle is loaded only after the cycle's sitemap walk
\* has completed.
C33_MapLoadedAfterWalk == MapLoaded => WalkCompleted

\* C34: no step changes the site's row except for last_crawled_at; last_crawled_at
\* changes only in the step after the page commit of a cycle has succeeded, only for
\* the cycle's site, and to the current time.
C34_OnlyLastCrawled ==
  [][/\ site_config' = site_config
     /\ db_last_crawled' # db_last_crawled =>
          /\ pc = "update_site"
          /\ db_pages = Flushed(db_at_start, session_dirty, new_pages)
          /\ db_last_crawled' = [db_last_crawled EXCEPT ![site] = clock]
     /\ (pc \in {"idle", "load", "walk", "diff", "commit"} /\ pc' \in {"idle", "except"})
          => db_last_crawled' = db_last_crawled]_vars

\* after a cycle that set last_crawled_at, a later cycle of the site has run its diff at
\* a later time and failed without its page commit
C34_Witness ==
  /\ pc = "except"
  /\ ncycles = 2
  /\ session_dirty # EmptyMap
  /\ db_pages = db_at_start
  /\ db_last_crawled[site] >= 0
  /\ db_last_crawled[site] < start_time

\* C35: every page of the table has first_discovered_at <= last_seen_at, and no step
\* lowers a page's last_seen_at or changes its first_discovered_at.
C35_TimestampsMonotonic ==
  [][/\ \A i \in DOMAIN db_pages' :
          db_pages'[i].first_discovered_at <= db_pages'[i].last_seen_at
     /\ \A i \in DOMAIN db_pages :
          /\ db_pages'[i].last_seen_at >= db_pages[i].last_seen_at
          /\ db_pages'[i].first_discovered_at = db_pages[i].first_discovered_at]_vars

\* two cycles have ended: a page inserted by the first was seen again later by the
\* second, which also inserted a page
C35_Witness ==
  /\ pc = "idle"
  /\ ncycles = 2
  /\ \E i, j \in RowsOfSite(db_pages, 1) :
        /\ db_pages[i].first_discovered_at = 0
        /\ db_pages[i].last_seen_at = 1
        /\ db_pages[j].first_discovered_at = 1
        /\ db_pages[j].last_seen_at = 1

(* ------------------------ properties of the walk ------------------------- *)

\* the sitemap URLs the web refers to from the root: the root, and the children of
\* every index document among them
RECURSIVE ReachFrom(_)
ReachFrom(S) ==
  LET N == S \cup UNION {Range(web[n].children) : n \in {m \in S : web[m].kind = "index"}}
  IN IF N = S THEN S ELSE ReachFrom(N)

Encountered == ReachFrom({RootSitemap})

\* how often the leaf sitemaps among the encountered URLs list page URL u
ListedByLeaves(u) ==
  Cardinality({nk \in Encountered \X (1..MaxLeafEntries) :
                 /\ web[nk[1]].kind = "leaf"
                 /\ nk[2] \in DOMAIN web[nk[1]].entries
                 /\ web[nk[1]].entries[nk[2]] = u})

RECURSIVE PendingWork(_)
PendingWork(frames) ==
  IF frames = <<>> THEN 0
  ELSE Len(Head(frames).child_sitemaps) + 1 + PendingWork(Tail(frames))

\* a bound on the steps the walk has left: every unvisited URL can open one more loop
Measure ==
  (MaxChildren + 2) * Cardinality(SitemapUrls \ processed_sitemaps)
  + PendingWork(stack)
  + (CASE walk_pc = "start" -> 2 [] walk_pc = "running" -> 1 [] OTHER -> 0)

\* C5: the walk terminates on every web of sitemap documents, self-referencing and
\* mutually referencing indexes included: every step lowers a natural-number bound on
\* the remaining steps, and the walk reaches its return.
C5_WalkTerminates ==
  /\ [][Measure' < Measure /\ Measure' >= 0]_walk_vars
  /\ <>(walk_pc = "done")

\* a walk has returned over a web in which the root index refers to itself and to an
\* index that refers back to the root
C5_Witness ==
  /\ walk_pc = "done"
  /\ web[RootSitemap].kind = "index"
  /\ web[RootSitemap].children = <<RootSitemap, "s2">>
  /\ web["s2"].kind = "index"
  /\ RootSitemap \in Range(web["s2"].children)

\* C6: fetch_sitemap is called at most once per sitemap URL in a walk, and a URL is in
\* processed_sitemaps from the moment it is fetched, whatever the fetch gives.
C6_FetchedAtMostOnce ==
  walk_pc # "off" =>
    \A u \in SitemapUrls :
       /\ fetch_count[u] <= 1
       /\ (fetch_count[u] = 1) <=> (u \in processed_sitemaps)

\* a walk has returned in which an index lists the same sitemap URL twice and the
\* fetch of that URL failed
C6_Witness ==
  /\ walk_pc = "done"
  /\ web[RootSitemap].kind = "index"
  /\ web[RootSitemap].children = <<"s2", "s2">>
  /\ web["s2"].kind = "failed"
  /\ fetch_count["s2"] = 1

\* C7: a failed fetch does not abort the walk. When the walk returns, every encountered
\* sitemap URL was visited, and the result holds every entry of every leaf among them,
\* as often as the leaves list it.
C7_FailedChildSkipped ==
  walk_pc = "done" =>
    /\ Encountered \subseteq processed_sitemaps
    /\ \A u \in PageUrls : Occurrences(all_urls, u) >= ListedByLeaves(u)

\* a walk has returned whose root index lists a sitemap that failed and then a leaf
C7_Witness ==
  /\ walk_pc = "done"
  /\ web[RootSitemap].kind = "index"
  /\ web[RootSitemap].children = <<"s2", "s3">>
  /\ web["s2"].kind = "failed"
  /\ web["s3"].kind = "leaf"
  /\ web["s3"].entries # <<>>
  /\ all_urls = web["s3"].entries

RECURSIVE FirstOccurrences(_, _)
FirstOccurrences(q, seen) ==
  IF q = <<>> THEN <<>>
  ELSE IF Head(q) \in seen THEN FirstOccurrences(Tail(q), seen)
       ELSE <<Head(q)>> \o FirstOccurrences(Tail(q), seen \cup {Head(q)})

RECURSIVE EntriesInOrder(_)
EntriesInOrder(q) ==
  IF q = <<>> THEN <<>> ELSE web[Head(q)].entries \o EntriesInOrder(Tail(q))

\* C8: the walk returns exactly the entries of the encountered leaves and exactly the
\* set of encountered sitemap URLs; for an index whose children are leaves, the entries
\* of the children in order, and the index and its distinct children as processed set.
C8_IndexOfLeaves ==
  walk_pc = "done" =>
    /\ processed_sitemaps = Encountered
    /\ \A u \in PageUrls : Occurrences(all_urls, u) = ListedByLeaves(u)
    /\ (/\ web[RootSitemap].kind = "index"
        /\ \A c \in Range(web[RootSitemap].children) : web[c].kind = "leaf")
       => /\ all_urls = EntriesInOrder(FirstOccurrences(web[RootSitemap].children, {}))
          /\ Cardinality(processed_sitemaps)
               = 1 + Cardinality(Range(web[RootSitemap].children))

\* a walk has returned over an index with two distinct leaf children with different
\* entries: both leaves' entries, three processed sitemaps
C8_Witness ==
  /\ walk_pc = "done"
  /\ web[RootSitemap].kind = "index"
  /\ web[RootSitemap].children = <<"s2", "s3">>
  /\ web["s2"] = Document("leaf", <<>>, <<"a">>)
  /\ web["s3"] = Document("leaf", <<>>, <<"b", "c">>)
  /\ all_urls = <<"a", "b", "c">>
  /\ Cardinality(processed_sitemaps) = 3

\* C11: a gzip decompression failure is terminal for its URL: make_request is called
\* at most once for it, no exception leaves the walk, the walk visits every other
\* sitemap it encounters and returns exactly what the leaves list.
C11_GzipFailureTerminal ==
  /\ walk_pc # "raised"
  /\ walk_pc # "off" =>
       \A u \in SitemapUrls : request_count[u] <= 1 /\ request_count[u] = fetch_count[u]
  /\ walk_pc = "done" =>
       /\ Encountered \subseteq processed_sitemaps
       /\ \A u \in SitemapUrls :
             (u \in Encountered /\ web[u].kind = "corrupt_gzip") => request_count[u] = 1
       /\ \A p \in PageUrls : Occurrences(all_urls, p) = ListedByLeaves(p)

\* a walk has returned whose root index lists a sitemap whose body does not decompress
\* and then a leaf
C11_Witness ==
  /\ walk_pc = "done"
  /\ web[RootSitemap].kind = "index"
  /\ web[RootSitemap].children = <<"s2", "s3">>
  /\ web["s2"].kind = "corrupt_gzip"
  /\ web["s3"].kind = "leaf"
  /\ request_count["s2"] = 1
  /\ all_urls = web["s3"].entries
  /\ all_urls # <<>>

\* C12: malformed XML gives an empty entry list and no children: none of
\* is_sitemap_index, parse_sitemap_index and parse_sitemap raises, no exception leaves
\* the walk, and a malformed document adds nothing to the result and opens no loop.
C12_MalformedGivesNothing ==
  /\ walk_pc # "raised"
  /\ \A u \in processed_sitemaps :
        web[u].kind = "malformed" =>
          /\ ~is_sitemap_index(web[u]).raised /\ ~is_sitemap_index(web[u]).value
          /\ parse_sitemap_index(web[u]) = [raised |-> FALSE, value |-> <<>>]
          /\ parse_sitemap(web[u]) = [raised |-> FALSE, value |-> <<>>]
  /\ \A k \in DOMAIN stack : web[stack[k].url].kind = "index"
  /\ walk_pc = "done" =>
       /\ Encountered \subseteq processed_sitemaps
       /\ Len(all_urls) =
            Cardinality({nk \in Encountered \X (1..MaxLeafEntries) :
                           /\ web[nk[1]].kind = "leaf"
                           /\ nk[2] \in DOMAIN web[nk[1]].entries})

\* a walk has returned whose root index lists a malformed document and then a leaf
C12_Witness ==
  /\ walk_pc = "done"
  /\ web[RootSitemap].kind = "index"
  /\ web[RootSitemap].children = <<"s2", "s3">>
  /\ web["s2"].kind = "malformed"
  /\ web["s3"].kind = "leaf"
  /\ web["s3"].entries # <<>>
  /\ all_urls = web["s3"].entries
  /\ fetch_count["s2"] = 1

(* ----------------------- properties of the request ----------------------- *)

RequestEnded == http_pc \in {"returned", "raised"}

\* C9: make_request makes at most 3 attempts. A call whose first two attempts fail with
\* a transient error and whose third succeeds returns the response; a call whose three
\* attempts all fail with retried errors raises, and there is no fourth attempt.
C9_AtMostThreeAttempts ==
  /\ Len(attempts) <= 3
  /\ attempt_number <= 3
  /\ Len(attempts) = 3 => RequestEnded
  /\ (/\ Len(attempts) = 3
      /\ attempts[1] \in Transient /\ attempts[2] \in Transient
      /\ attempts[3] = "ok")
     => http_pc = "returned" /\ http_result = "response"
  /\ (Len(attempts) = 3 /\ attempts[3] # "ok")
     => http_pc = "raised" /\ http_result # "response"
  /\ http_pc = "returned" => attempts[Len(attempts)] = "ok"

\* a GET failed with a connection error, then timed out, then got its response
C9_Witness ==
  /\ method = "GET"
  /\ attempts = <<"connection_error", "timeout", "ok">>
  /\ http_pc = "returned"
  /\ http_result = "response"

\* C10: only transient failures of idempotent requests are retried: a request answered
\* with a 4xx status, and a failing request with a non-idempotent method such as POST,
\* is attempted exactly once and fails at once.
C10_NoRetryOf4xxOrPost ==
  (/\ attempts # <<>>
   /\ \/ attempts[1] = "http_4xx"
      \/ method = "POST" /\ attempts[1] # "ok")
  => /\ Len(attempts) = 1
     /\ http_pc = "raised"

(* ------------------- properties of the notification delivery ------------- *)

\* send_message has returned after a POST that did not deliver the message
DeliveryFailed ==
  /\ send_pc = "idle"
  /\ nsends > 0
  /\ send_result = "False"
  /\ webhook_url # "" /\ secret # ""

\* C25: a message whose delivery attempt failed (transport error, non-200 status or
\* non-zero result code) is given up only after SendStopAfterAttempt attempts.
C25_FailedDeliveryRetried ==
  DeliveryFailed => send_attempt_number = SendStopAfterAttempt

(* ---------------- properties of run_all_active_sites.main ---------------- *)

\* main has returned from its loop over a list of sites
DriverDone == drv_pc = "exited" /\ sites_to_run # <<>>

\* the ids of the listed sites, in list order
ListedIds == [k \in DOMAIN sites_to_run |-> sites_to_run[k].id]

\* C31: main returns 0 when no site is listed; after its loop it returns 0 if and only if
\* the iteration of every listed site ended with a cycle that returned success, which is
\* when success_count equals the number of listed sites, and 1 otherwise.
C31_ZeroIffAllSucceeded ==
  /\ (drv_pc = "exited" /\ sites_to_run = <<>>) => exit_code = 0
  /\ DriverDone =>
        /\ exit_code \in {0, 1}
        /\ Len(drv_outcomes) = Len(sites_to_run)
        /\ success_count = Cardinality({k \in DOMAIN drv_outcomes : drv_outcomes[k] = "success"})
        /\ exit_code = 0 <=> (\A k \in DOMAIN drv_outcomes : drv_outcomes[k] = "success")
        /\ exit_code = 0 <=> success_count = Len(sites_to_run)
        /\ \A k \in DOMAIN sites_to_run :
              (~sites_to_run[k].still_enabled \/ sites_to_run[k].monitoring_type # "sitemap")
                 => exit_code = 1

\* main has returned 1 after two sites of which the first succeeded and the second
\* did not
C31_Witness ==
  /\ DriverDone
  /\ Len(sites_to_run) = 2
  /\ drv_outcomes[1] = "success"
  /\ drv_outcomes[2] = "failed"
  /\ success_count = 1
  /\ exit_code = 1

\* C32: the iterations begin in list order, each site at most once; an iteration begins,
\* and a cycle starts, only when the iteration before it has ended and no session of the
\* loop is open; and when main returns from its loop every listed site has had its
\* iteration, however the iterations before it ended.
C32_OneAtATimeInOrder ==
  [][/\ IsPrefix(drv_started', ListedIds)
     /\ drv_started' # drv_started =>
          /\ Len(drv_outcomes) = Len(drv_started)
          /\ drv_session = 0
          /\ pc = "idle"
     /\ (pc = "idle" /\ pc' = "load") =>
          /\ drv_session = 0
          /\ drv_session' = site'
          /\ site' = sites_to_run[drv_idx].id
     /\ (drv_pc' = "exited" /\ drv_pc = "next") => drv_started = ListedIds
     /\ pc' # "idle" => drv_session' = site']_vars

\* main has returned after a first site whose cycle raised and a second site whose
\* cycle succeeded
C32_Witness ==
  /\ DriverDone
  /\ Len(sites_to_run) = 2
  /\ drv_started = ListedIds
  /\ drv_outcomes = <<"raised", "success">>

(* ------------- properties of send_new_pages_notification ----------------- *)

Min(a, b) == IF a < b THEN a ELSE b

\* C37: the text built for n > 0 new pages states the total n, lists exactly min(n, 10)
\* pages, the first ones in discovery order, numbered from 1, and has a remainder line,
\* with the count n - 10, exactly when n > 10; every text POSTed is that text; for
\* n = 0 no text is built, nothing is POSTed and the call returns True.
C37_NewPagesMessage ==
  LET n == Len(note_pages) IN
  /\ (note_pc \in {"send", "done"} /\ note_text # NoText) =>
        /\ n > 0
        /\ note_text.total = n
        /\ Len(note_text.lines) = Min(n, 10)
        /\ \A i \in DOMAIN note_text.lines :
              /\ note_text.lines[i].number = i
              /\ note_text.lines[i].url = note_pages[i].url
              /\ note_text.lines[i].title = note_pages[i].page_title
        /\ (note_text.remainder # -1) <=> n > 10
        /\ n > 10 => note_text.remainder = n - 10
  /\ \A k \in DOMAIN note_sent : note_sent[k] = note_text /\ note_text # NoText
  /\ Len(note_sent) <= 1
  /\ (note_pc = "done" /\ n = 0) =>
        /\ note_text = NoText
        /\ note_sent = <<>>
        /\ note_result = "True"

\* a text for 11 new pages, in descending order of URL, has been POSTed and accepted
C37_Witness ==
  /\ note_pc = "done"
  /\ Len(note_pages) = 11
  /\ note_pages[1].url = 11
  /\ note_result = "True"
  /\ Len(note_sent) = 1
  /\ note_sent[1].remainder = 1
  /\ Len(note_sent[1].lines) = 10

(* ------------- properties of two concurrent cycles ----------------------- *)

\* both calls have ended
RaceOver == \A p \in Procs : r_pc[p] = "done"

\* the URLs both calls took for new, each having loaded its map before any page commit
CommonNew ==
  IF \A p \in Procs : r_before[p] = 0
  THEN {u \in PageUrls : \A p \in Procs : \E k \in DOMAIN r_new[p] : r_new[p][k].url = u}
  ELSE {}

\* the calls whose page commit was accepted
Winners == {p \in Procs : r_commit[p] = "accepted"}

\* after a race on a new URL the table holds the URL at most once, and once when a commit
\* was accepted; at most one call returned success; and the table is the one before the
\* race with the changes of the accepted commit alone
RaceSerialized ==
  (RaceOver /\ CommonNew # {}) =>
     /\ \A u \in CommonNew :
           /\ Cardinality(RowsOf(db_pages, RaceSite, u)) <= 1
           /\ Winners # {} => Cardinality(RowsOf(db_pages, RaceSite, u)) = 1
     /\ Cardinality(Winners) <= 1
     /\ Cardinality({p \in Procs : r_result[p].success}) <= 1
     /\ \A p \in Procs : r_result[p].success => p \in Winners
     /\ Winners = {} => db_pages = RaceTable
     /\ \A q \in Winners : db_pages = Flushed(RaceTable, r_dirty[q], r_new[q])

\* call p ended Failed: it returned False or wrote a failed record
EndedFailed(p) == r_result[p] = Returned(FALSE, 0) \/ "failed" \in Range(r_logs[p])

\* C36: when two calls for the same site have both loaded the existing-URL map before
\* either commits and both take the same URL for new, then after both have ended the
\* table holds one row for the URL, at most one call has returned success, and the call
\* whose commit was not accepted has ended Failed with none of its page changes in the
\* table.
C36_RaceOnNewUrl ==
  /\ RaceSerialized
  /\ (RaceOver /\ CommonNew # {}) =>
        \E p \in Procs : p \notin Winners /\ EndedFailed(p)

====
